---- MODULE Spec2Model ----
(***************************************************************************)
(* A model of the ClosureList component (src/components/ClosureList.tsx):  *)
(* its React state, the dataset load effect, the neighbourhood lookup      *)
(* effect with the process-wide cache, and the pure helpers it renders     *)
(* with; of the parks API route (src/unnamed/part_006); and of the page    *)
(* (src/app/page.tsx) with its header (src/unnamed/part_003) and the parks *)
(* directory it mounts (src/components/TrailDirectory.tsx).  JavaScript    *)
(* strings are sequences of one-character strings, so that trim,           *)
(* toLowerCase, includes, localeCompare, split and the point regex are     *)
(* computed, not assumed.                                                  *)
(***************************************************************************)
EXTENDS Integers, Sequences, FiniteSets, TLC

VARIABLES
  kind,                \* useState<DatasetKind>            (line 146)
  view,                \* useState<ViewMode>               (line 147)
  trailRows,           \* useState<TrailRow[]>             (line 150)
  trafficRows,         \* useState<TrafficRow[]>           (line 151)
  neighNames,          \* useState<Record<string,string>>  (line 152)
  expanded,            \* useState<Record<string,boolean>> (line 153)
  loading,             \* useState<boolean>                (line 154)
  neighbourhoodCache,  \* module-level Record<string,string> (line 111)
  fetches,             \* the load() calls started so far, each with its closure flag
  runs,                \* the run() calls of the lookup effect that still have work
  escaped,             \* TRUE once an exception left an effect uncaught
  arg,                 \* input of a helper applied on its own
  ret,                 \* what that helper returned
  pageView,            \* Page: useState view                   (page.tsx line 20)
  pageParks,           \* Page: useState<Park[]> parks          (page.tsx line 21)
  selectedPark,        \* Page: useState<Park | null>, <<>> for null (page.tsx line 22)
  pageFetch,           \* Page: where its fetchData() stands    (page.tsx lines 25-66)
  parks,               \* TrailDirectory: useState<Park[]>      (line 32)
  filtered,            \* TrailDirectory: useState<Park[]>      (line 33)
  searchTerm,          \* TrailDirectory: useState("")          (line 34)
  statusActiveOnly,    \* TrailDirectory: useState(false)       (line 35)
  classFilter,         \* TrailDirectory: useState("")          (line 36)
  userCoords,          \* TrailDirectory: useState<Coordinates | null>, <<>> for null (line 37)
  sortNearMe,          \* TrailDirectory: useState(false)       (line 38)
  dirFetch             \* TrailDirectory: where its fetchData() stands, "none" when unmounted

\* the state of Page
pageVars == <<pageView, pageParks, selectedPark, pageFetch>>

\* the state of the TrailDirectory that Page mounts
dirVars == <<parks, filtered, searchTerm, statusActiveOnly, classFilter, userCoords,
             sortNearMe, dirFetch>>

siteVars == <<pageVars, dirVars>>

vars == <<kind, view, trailRows, trafficRows, neighNames, expanded, loading,
          neighbourhoodCache, fetches, runs, escaped, arg, ret, siteVars>>

compVars == <<kind, view, trailRows, trafficRows, neighNames, expanded, loading,
              neighbourhoodCache, fetches, runs, escaped, siteVars>>

\* the state of ClosureList and of the helpers applied on their own
listVars == <<kind, view, trailRows, trafficRows, neighNames, expanded, loading,
              neighbourhoodCache, fetches, runs, escaped, arg, ret>>

\* Page after its first render: the home view, its fetchData() waiting for
\* /api/parks, no TrailDirectory mounted
PageMounted ==
  /\ pageView = "home"
  /\ pageParks = <<>>
  /\ selectedPark = <<>>
  /\ pageFetch = "fetch"
  /\ parks = <<>>
  /\ filtered = <<>>
  /\ searchTerm = <<>>
  /\ statusActiveOnly = FALSE
  /\ classFilter = <<>>
  /\ userCoords = <<>>
  /\ sortNearMe = FALSE
  /\ dirFetch = "none"

-----------------------------------------------------------------------------
(* Strings *)

\* the value of an optional string field that is missing (undefined)
Undef == <<"undefined">>

NO_LOC == <<"N", "/", "A">>

\* JavaScript truthiness of an optional string: undefined and "" are falsy
Truthy(s) == s # Undef /\ s # <<>>

\* a || b on optional strings
OrElse(s, d) == IF Truthy(s) THEN s ELSE d

IsSpace(c) == c = " "

RECURSIVE TrimStart(_)
TrimStart(s) ==
  IF s # <<>> /\ IsSpace(Head(s)) THEN TrimStart(Tail(s)) ELSE s

RECURSIVE TrimEnd(_)
TrimEnd(s) ==
  IF s # <<>> /\ IsSpace(s[Len(s)]) THEN TrimEnd(SubSeq(s, 1, Len(s) - 1)) ELSE s

\* String.prototype.trim
Trim(s) == TrimEnd(TrimStart(s))

LowerChar(c) ==
  CASE c = "A" -> "a"
    [] c = "B" -> "b"
    [] c = "P" -> "p"
    [] OTHER -> c

\* String.prototype.toLowerCase
ToLowerCase(s) == [i \in DOMAIN s |-> LowerChar(s[i])]

\* collation weight of a character: white space before digits before letters,
\* an upper-case letter right after its lower-case one
Rank(c) ==
  CASE c = " " -> 0
    [] c = "1" -> 1
    [] c = "a" -> 10
    [] c = "A" -> 11
    [] c = "b" -> 12
    [] c = "B" -> 13
    [] OTHER -> 20

\* String.prototype.localeCompare: negative, zero or positive
RECURSIVE LocaleCompare(_, _)
LocaleCompare(a, b) ==
  IF a = <<>> /\ b = <<>> THEN 0
  ELSE IF a = <<>> THEN -1
  ELSE IF b = <<>> THEN 1
  ELSE IF Rank(Head(a)) < Rank(Head(b)) THEN -1
  ELSE IF Rank(Head(a)) > Rank(Head(b)) THEN 1
  ELSE LocaleCompare(Tail(a), Tail(b))

\* String.prototype.split(","): the pieces between the commas
RECURSIVE SplitComma(_, _)
SplitComma(s, cur) ==
  IF s = <<>> THEN <<cur>>
  ELSE IF Head(s) = "," THEN <<cur>> \o SplitComma(Tail(s), <<>>)
  ELSE SplitComma(Tail(s), Append(cur, Head(s)))

\* the template literal `${lat},${lon}`
KeyOf(lat, lon) == lat \o <<",">> \o lon

DigitChars == <<"0", "1", "2", "3", "4", "5", "6", "7", "8", "9">>

IsDigit(c) == \E i \in 1..10 : DigitChars[i] = c

RECURSIVE NatToString(_)
NatToString(n) ==
  IF n < 10 THEN <<DigitChars[n + 1]>>
  ELSE NatToString(n \div 10) \o <<DigitChars[(n % 10) + 1]>>

\* String(n) of an integral number
NumToString(n) == IF n < 0 THEN <<"-">> \o NatToString(-n) ELSE NatToString(n)

-----------------------------------------------------------------------------
(* The regular expression /-?\d+(\.\d+)?/g of parseTrafficPoint *)

\* first index at or after i that holds no digit
RECURSIVE DigitsEnd(_, _)
DigitsEnd(s, i) ==
  IF i <= Len(s) /\ IsDigit(s[i]) THEN DigitsEnd(s, i + 1) ELSE i

\* index after the match that starts at i, or 0 when none starts there
MatchEnd(s, i) ==
  LET start == IF s[i] = "-" THEN i + 1 ELSE i
      e1    == DigitsEnd(s, start)
      e2    == IF e1 <= Len(s) /\ s[e1] = "." THEN DigitsEnd(s, e1 + 1) ELSE e1
  IN  IF e1 = start THEN 0
      ELSE IF e2 > e1 + 1 THEN e2
      ELSE e1

\* point.match(re): the matches left to right, each search resuming after the last
RECURSIVE MatchAll(_, _)
MatchAll(s, i) ==
  IF i > Len(s) THEN <<>>
  ELSE LET e == MatchEnd(s, i)
       IN  IF e = 0 THEN MatchAll(s, i + 1)
           ELSE <<SubSeq(s, i, e - 1)>> \o MatchAll(s, e)

-----------------------------------------------------------------------------
(* JavaScript values that are not strings *)

\* a latitude / longitude member of a point object: number | string | undefined
JsUndef == [t |-> "undefined", n |-> 0, s |-> <<>>]

JsNum(n) == [t |-> "number", n |-> n, s |-> <<>>]

JsStr(s) == [t |-> "string", n |-> 0, s |-> s]

\* String(v)
ToStr(v) ==
  CASE v.t = "number" -> NumToString(v.n)
    [] v.t = "string" -> v.s
    [] OTHER -> <<"u", "n", "d", "e", "f", "i", "n", "e", "d">>

\* the coordinates member of a point object
NoCoordinates == [isArray |-> FALSE, elems |-> <<>>]

Coordinates(e) == [isArray |-> TRUE, elems |-> e]

\* PointLike (lines 15-24): string | object | null | undefined
PointUndefined ==
  [t |-> "undefined", s |-> <<>>, coordinates |-> NoCoordinates,
   latitude |-> JsUndef, longitude |-> JsUndef]

PointNull == [PointUndefined EXCEPT !.t = "null"]

PointString(s) == [PointUndefined EXCEPT !.t = "string", !.s = s]

PointObject(c, la, lo) ==
  [PointUndefined EXCEPT !.t = "object", !.coordinates = c,
                         !.latitude = la, !.longitude = lo]

\* !point
PointFalsy(p) == p.t \in {"undefined", "null"} \/ (p.t = "string" /\ p.s = <<>>)

\* what a call gives back: a value, or an exception raised to the caller
Returned(v) == [t |-> "return", v |-> v]

Thrown == [t |-> "throw", v |-> <<>>]

\* the object literals parseTrafficPoint returns: {} and { lat, lon }
NoPair == [lat |-> Undef, lon |-> Undef]

Pair(la, lo) == [lat |-> la, lon |-> lo]

\* the object branches of parseTrafficPoint (lines 97-107); reading a property
\* of null or undefined raises a TypeError
ParsePointObject(point) ==
  IF point.t \in {"undefined", "null"} THEN Thrown
  ELSE IF point.t = "string" THEN Returned(NoPair)
  ELSE IF point.coordinates.isArray /\ Len(point.coordinates.elems) >= 2
       THEN Returned(Pair(NumToString(point.coordinates.elems[2]),
                          NumToString(point.coordinates.elems[1])))
  ELSE IF point.latitude.t # "undefined" /\ point.longitude.t # "undefined"
       THEN Returned(Pair(ToStr(point.latitude), ToStr(point.longitude)))
  ELSE Returned(NoPair)

\* a parseTrafficPoint that reads the tokens as lat, lon instead of lon, lat
ParseTrafficPointSwapped(point) ==
  IF PointFalsy(point) THEN Returned(NoPair)
  ELSE IF point.t = "string"
  THEN LET nums == MatchAll(point.s, 1)
       IN  IF Len(nums) < 2 THEN Returned(NoPair)
           ELSE Returned(Pair(nums[1], nums[2]))
  ELSE ParsePointObject(point)

ParseTrafficPoint(point) ==
  IF PointFalsy(point) THEN Returned(NoPair)
  ELSE IF point.t = "string"
  THEN LET nums == MatchAll(point.s, 1)
       IN  IF Len(nums) < 2 THEN Returned(NoPair)
           ELSE Returned(Pair(nums[2], nums[1]))
  ELSE ParsePointObject(point)

-----------------------------------------------------------------------------
(* Geometry *)

\* JSON values as far as parseGeom meets them
JsonNull == [t |-> "null", n |-> 0, type |-> <<>>]

JsonNumber(n) == [t |-> "number", n |-> n, type |-> <<>>]

\* an object; type is its GeoJSON "type" member, <<>> when it has none
JsonObject(type) == [t |-> "object", n |-> 0, type |-> type]

NullText == <<"n", "u", "l", "l">>

\* {"type":"Point"}
GeoText ==
  <<"{", "\"", "t", "y", "p", "e", "\"", ":", "\"", "P", "o", "i", "n", "t", "\"", "}">>

RECURSIVE DigitsValue(_, _)
DigitsValue(s, acc) ==
  IF s = <<>> THEN acc
  ELSE DigitsValue(Tail(s), 10 * acc + (CHOOSE d \in 0..9 : DigitChars[d + 1] = Head(s)))

\* JSON.parse on the texts of GeomTexts: white space around the value is
\* skipped; null, an unsigned integer without a leading zero, an empty object
\* and GeoText are values; every other text is a SyntaxError
JsonParse(s) ==
  LET t == Trim(s)
  IN  IF t = NullText THEN Returned(JsonNull)
      ELSE IF /\ Len(t) >= 2 /\ t[1] = "{" /\ t[Len(t)] = "}"
              /\ \A i \in 2..(Len(t) - 1) : IsSpace(t[i])
           THEN Returned(JsonObject(<<>>))
      ELSE IF t = GeoText THEN Returned(JsonObject(<<"P", "o", "i", "n", "t">>))
      ELSE IF t # <<>> /\ DigitsEnd(t, 1) = Len(t) + 1 /\ (Len(t) = 1 \/ t[1] # "0")
           THEN Returned(JsonNumber(DigitsValue(t, 0)))
      ELSE Thrown

\* GeometryLike (line 13): GeoJsonObject | string | null | undefined
GeomUndefined == [t |-> "undefined", s |-> <<>>, obj |-> JsonNull]

GeomNull == [GeomUndefined EXCEPT !.t = "null"]

GeomString(s) == [GeomUndefined EXCEPT !.t = "string", !.s = s]

GeomObject(o) == [GeomUndefined EXCEPT !.t = "object", !.obj = o]

GeomFalsy(raw) ==
  raw.t \in {"undefined", "null"} \/ (raw.t = "string" /\ raw.s = <<>>)

ParseGeom(raw) ==
  IF GeomFalsy(raw) THEN Returned(JsonNull)
  ELSE LET body == IF raw.t = "string" THEN JsonParse(raw.s) ELSE Returned(raw.obj)
       IN  IF body.t = "throw" THEN Returned(JsonNull) ELSE body

-----------------------------------------------------------------------------
(* Rows *)

Kinds == {"trail", "traffic"}

\* BaseRow, TrailRow, TrafficRow (lines 26-50) with the members the component
\* reads; a missing member is Undef
EmptyRow ==
  [infrastructure |-> Undef, location_name |-> Undef, start_date |-> Undef,
   end_date |-> Undef, duration |-> Undef, latitude |-> Undef,
   longitude |-> Undef, details |-> Undef, description |-> Undef,
   point |-> PointUndefined, geometry |-> GeomUndefined]

\* the long-text member of a row: details for trail, description for traffic
LongTextOf(k, r) == IF k = "trail" THEN r.details ELSE r.description

\* the rows of the selected dataset kind
RowsOf(k, trail, traffic) == IF k = "trail" THEN trail ELSE traffic

-----------------------------------------------------------------------------
(* Traffic normalization (lines 194-205) *)

\* the callback of data.map: a row, or the exception parseTrafficPoint raised
NormalizeRow(r) ==
  LET lat == r.latitude
      lon == r.longitude
  IN  IF (~Truthy(lat) \/ ~Truthy(lon)) /\ ~PointFalsy(r.point)
      THEN LET p == ParseTrafficPoint(r.point)
           IN  IF p.t = "throw" THEN Thrown
               ELSE IF Truthy(p.v.lat) /\ Truthy(p.v.lon)
                    THEN Returned([r EXCEPT !.latitude = p.v.lat, !.longitude = p.v.lon])
               ELSE Returned(r)
      ELSE Returned(r)

\* data.map(...) over an array
NormalizeAll(data) ==
  IF \E i \in DOMAIN data : NormalizeRow(data[i]).t = "throw" THEN Thrown
  ELSE Returned([i \in DOMAIN data |-> NormalizeRow(data[i]).v])

-----------------------------------------------------------------------------
(* Dedupe + sort (items, lines 263-297) *)

\* a dedupe key that forgets to lower-case
DedupeKeyCased(k, r) == Trim(OrElse(LongTextOf(k, r), <<>>))

\* the key of the seen set
DedupeKey(k, r) == ToLowerCase(Trim(OrElse(LongTextOf(k, r), <<>>)))

\* the for loop: the rows whose key was not seen before, in input order
RECURSIVE Dedupe(_, _, _)
Dedupe(k, rows, seen) ==
  IF rows = <<>> THEN <<>>
  ELSE LET key == DedupeKey(k, Head(rows))
       IN  IF key \in seen THEN Dedupe(k, Tail(rows), seen)
           ELSE <<Head(rows)>> \o Dedupe(k, Tail(rows), seen \cup {key})

\* the comparator handed to out.sort
SortCompare(k, a, b) ==
  LocaleCompare(ToLowerCase(OrElse(LongTextOf(k, a), <<>>)),
                ToLowerCase(OrElse(LongTextOf(k, b), <<>>)))

\* r put behind the last element that does not compare greater than it
RECURSIVE InsertSorted(_, _, _)
InsertSorted(k, out, r) ==
  IF out = <<>> THEN <<r>>
  ELSE IF SortCompare(k, Head(out), r) <= 0
       THEN <<Head(out)>> \o InsertSorted(k, Tail(out), r)
  ELSE <<r>> \o out

\* Array.prototype.sort: a stable sort by the comparator
RECURSIVE SortRows(_, _, _)
SortRows(k, rows, out) ==
  IF rows = <<>> THEN out
  ELSE SortRows(k, Tail(rows), InsertSorted(k, out, Head(rows)))

\* the items memo
Items(k, trail, traffic) == SortRows(k, Dedupe(k, RowsOf(k, trail, traffic), {}), <<>>)

-----------------------------------------------------------------------------
(* Cards (lines 480-563) *)

\* neighNames[k], undefined when the object has no such member
NameOf(names, k) == IF k \in DOMAIN names THEN names[k] ELSE Undef

\* an endDisplay that shows the end date itself
EndDisplayShown(r) == IF Truthy(r.end_date) THEN r.end_date ELSE OrElse(r.duration, NO_LOC)

\* endDisplay (line 496)
EndDisplay(r) == IF Truthy(r.end_date) THEN NO_LOC ELSE OrElse(r.duration, NO_LOC)

\* the title (lines 483-495); the dash stands for the en dash of the template
TitleOf(r, names) ==
  LET lat       == Trim(OrElse(r.latitude, <<>>))
      lon       == Trim(OrElse(r.longitude, <<>>))
      hasCoords == lat # <<>> /\ lon # <<>>
      infra     == OrElse(Trim(OrElse(r.infrastructure, <<>>)),
                          <<"I", "n", "f", "r", "a", "s", "t", "r", "u", "c", "t", "u", "r", "e">>)
      locRaw    == Trim(OrElse(r.location_name, <<>>))
      neigh     == IF hasCoords THEN NameOf(names, KeyOf(lat, lon)) ELSE Undef
      locDisplay == OrElse(locRaw, OrElse(neigh, NO_LOC))
  IN  infra \o <<" ", "-", " ">> \o locDisplay

\* one card of the list
Card(k, r, names) ==
  [title |-> TitleOf(r, names),
   endDisplay |-> EndDisplay(r),
   longText |-> OrElse(LongTextOf(k, r), <<>>)]

\* the cards of a row sequence
CardsOf(k, rows, names) == [i \in DOMAIN rows |-> Card(k, rows[i], names)]

\* the list view maps over the rows of the selected kind (lines 476-480)
ListCards(k, trail, traffic, names) == CardsOf(k, RowsOf(k, trail, traffic), names)

\* what the component renders (lines 443-565)
Render(v, ld, k, trail, traffic, names) ==
  IF v = "map" THEN [what |-> "map", cards |-> <<>>]
  ELSE IF ld THEN [what |-> "loading", cards |-> <<>>]
  ELSE [what |-> "list", cards |-> ListCards(k, trail, traffic, names)]

-----------------------------------------------------------------------------
(* The process-wide cache and fetchNeighbourhoodName (lines 111-139) *)

EmptyMap == [k \in {} |-> <<>>]

\* prev with the members of next written over it: { ...prev, ...next }
Merge(prev, next) ==
  [k \in DOMAIN prev \cup DOMAIN next |-> IF k \in DOMAIN next THEN next[k] ELSE prev[k]]

\* obj[key] = value
Put(obj, key, value) == Merge(obj, [k \in {key} |-> value])

\* what one lookup request came back with: the fetch rejected, a non-OK
\* status, or an OK body whose first row has this descriptive_name (Undef
\* when the body has no such row or is no JSON)
ResponseError == [t |-> "error", name |-> Undef]

ResponseNotOk == [t |-> "notok", name |-> Undef]

ResponseOk(name) == [t |-> "ok", name |-> name]

\* js?.[0]?.descriptive_name?.trim() of a response, Undef when the loop continues
FoundName(resp) ==
  IF resp.t = "ok" /\ resp.name # Undef THEN Trim(resp.name) ELSE Undef

\* the call fetchNeighbourhoodName(lat, lon) up to its first await: a cache
\* hit returns at once, a miss sends the the_geom query
\*   k     the key of run()'s todo list, key  the cache key of the call
\*   pc    "q1" / "q2": that query is in flight, "done": the call returned
\*   reqs  requests sent so far, heard  what each answered query gave
\*   name  the returned name
StartLookup(k, cache) ==
  LET parts == SplitComma(k, <<>>)
      lat   == parts[1]
      lon   == IF Len(parts) >= 2 THEN parts[2] ELSE <<"u", "n", "d", "e", "f", "i", "n", "e", "d">>
      key   == KeyOf(lat, lon)
  IN  IF Truthy(NameOf(cache, key))
      THEN [k |-> k, key |-> key, pc |-> "done", reqs |-> 0, heard |-> <<>>,
            name |-> cache[key]]
      ELSE [k |-> k, key |-> key, pc |-> "q1", reqs |-> 1, heard |-> <<>>,
            name |-> Undef]

\* a loop that returns the raw name untrimmed
LookupStepRaw(l, resp) ==
  IF resp.t = "ok" /\ Truthy(resp.name)
  THEN [l EXCEPT !.pc = "done", !.name = resp.name, !.heard = Append(@, FoundName(resp))]
  ELSE IF l.pc = "q1"
  THEN [l EXCEPT !.pc = "q2", !.reqs = @ + 1, !.heard = Append(@, Undef)]
  ELSE [l EXCEPT !.pc = "done", !.name = NO_LOC, !.heard = Append(@, Undef)]

\* a call that returns nothing when neither query found a name
LookupStepNoDefault(l, resp) ==
  LET name == FoundName(resp)
  IN  IF Truthy(name)
      THEN [l EXCEPT !.pc = "done", !.name = name, !.heard = Append(@, name)]
      ELSE IF l.pc = "q1"
      THEN [l EXCEPT !.pc = "q2", !.reqs = @ + 1, !.heard = Append(@, Undef)]
      ELSE [l EXCEPT !.pc = "done", !.name = Undef, !.heard = Append(@, Undef)]

\* the call after the answer to the query in flight (lines 123-138)
LookupStep(l, resp) ==
  LET name == FoundName(resp)
  IN  IF Truthy(name)
      THEN [l EXCEPT !.pc = "done", !.name = name, !.heard = Append(@, name)]
      ELSE IF l.pc = "q1"
      THEN [l EXCEPT !.pc = "q2", !.reqs = @ + 1, !.heard = Append(@, Undef)]
      ELSE [l EXCEPT !.pc = "done", !.name = NO_LOC, !.heard = Append(@, Undef)]

\* a cache that forgets a key whose lookup found nothing
CacheAfterEvicting(cache, l2) ==
  IF l2.pc # "done" THEN cache
  ELSE IF l2.name = NO_LOC THEN [k \in DOMAIN cache \ {l2.key} |-> cache[k]]
  ELSE Put(cache, l2.key, l2.name)

\* the cache after that step: written exactly when the call returns
CacheAfter(cache, l2) ==
  IF l2.pc = "done" THEN Put(cache, l2.key, l2.name) ELSE cache

-----------------------------------------------------------------------------
(* The neighbourhood effect (lines 225-260) *)

\* todo.slice(0, 40)
SliceLimit == 40

\* the key of a row in run()'s loop: lat and lon trimmed (lines 234-237)
TodoKey(r) == KeyOf(Trim(OrElse(r.latitude, <<>>)), Trim(OrElse(r.longitude, <<>>)))

\* the condition under which the loop pushes the key of r (lines 233-238)
Unresolved(r, names) ==
  /\ Trim(OrElse(r.location_name, <<>>)) = <<>>
  /\ Trim(OrElse(r.latitude, <<>>)) # <<>>
  /\ Trim(OrElse(r.longitude, <<>>)) # <<>>
  /\ ~Truthy(NameOf(names, TodoKey(r)))

\* the for loop over rows (lines 231-240)
Todo(rows, names) ==
  LET pushed == SelectSeq(rows, LAMBDA r : Unresolved(r, names))
  IN  [i \in DOMAIN pushed |-> TodoKey(pushed[i])]

\* todo.slice(0, 40)
Subset(todo) == SubSeq(todo, 1, IF Len(todo) < SliceLimit THEN Len(todo) ELSE SliceLimit)

\* run() up to its await: the lookups of the batch, all started
StartRun(k, trail, traffic, names, cache) ==
  LET subset == Subset(Todo(RowsOf(k, trail, traffic), names))
  IN  [cancelled |-> FALSE,
       lookups |-> [i \in DOMAIN subset |-> StartLookup(subset[i], cache)]]

\* a run whose lookups have all returned
Finished(r) == \A j \in DOMAIN r.lookups : r.lookups[j].pc = "done"

\* the effect's cleanup followed by the effect: every earlier run is
\* cancelled, and a new run joins them unless its batch is empty (an empty
\* Promise.all resolves to nothing to publish).  A cancelled run whose
\* lookups have all returned only has "if (cancelled) return" left to do
\* (line 249) and is dropped.
Rerun(rs, k, trail, traffic, names, cache) ==
  LET live == SelectSeq(rs, LAMBDA r : ~Finished(r))
      old  == [i \in DOMAIN live |-> [live[i] EXCEPT !.cancelled = TRUE]]
      new  == StartRun(k, trail, traffic, names, cache)
  IN  IF new.lookups = <<>> THEN old ELSE Append(old, new)

\* next (lines 250-251): the results keyed by k, a later result over an earlier
ResultsOf(ls) ==
  [k \in {ls[i].k : i \in DOMAIN ls} |->
     ls[CHOOSE i \in DOMAIN ls :
          ls[i].k = k /\ \A j \in DOMAIN ls : j > i => ls[j].k # k].name]

\* seq without its i-th element
Without(seq, i) == SubSeq(seq, 1, i - 1) \o SubSeq(seq, i + 1, Len(seq))

-----------------------------------------------------------------------------
(* The load effect (lines 180-222) *)

\* the number of load() calls a behaviour may start
MaxFetches == 3

\* what res.json() gave: a SyntaxError, or a value that is an array of rows or not
BodySyntaxError == [parse |-> "error", isArray |-> FALSE, rows |-> <<>>]

BodyNotArray == [parse |-> "ok", isArray |-> FALSE, rows |-> <<>>]

BodyArray(rows) == [parse |-> "ok", isArray |-> TRUE, rows |-> rows]

\* the try block after both awaits (lines 188-189, 193-206): the rows handed
\* to the setter, or the exception raised (data.map of a non-array is a TypeError)
TryBody(k, body) ==
  IF body.parse = "error" THEN Thrown
  ELSE IF k = "trail" THEN Returned(IF body.isArray THEN body.rows ELSE <<>>)
  ELSE IF ~body.isArray THEN Thrown
  ELSE NormalizeAll(body.rows)

\* a load without its catch block: the exception leaves the effect
LoadResultNoCatch(out, old) ==
  IF out.t = "throw" THEN [rows |-> old, escapes |-> TRUE]
  ELSE [rows |-> out.v, escapes |-> FALSE]

\* try / catch (lines 184-213): the rows of the effect's kind afterwards
LoadResult(out, old) ==
  IF out.t = "throw" THEN [rows |-> <<>>, escapes |-> FALSE]
  ELSE [rows |-> out.v, escapes |-> FALSE]

\* a load that applies its result whether cancelled or not
AppliesAlways(f) == TRUE

\* if (!cancelled) (lines 189, 206, 210, 215)
Applies(f) == ~f.cancelled

\* load() reached its end with the try block's outcome out
Settle(i, out) ==
  LET f   == fetches[i]
      res == LoadResult(out, RowsOf(f.kind, trailRows, trafficRows))
  IN  /\ fetches' = [fetches EXCEPT ![i].pc = "done"]
      /\ escaped' = (escaped \/ res.escapes)
      /\ IF Applies(f)
         THEN /\ trailRows' = IF f.kind = "trail" /\ ~res.escapes THEN res.rows ELSE trailRows
              /\ trafficRows' = IF f.kind = "traffic" /\ ~res.escapes THEN res.rows ELSE trafficRows
              /\ loading' = FALSE
              /\ runs' = IF res.escapes THEN runs
                         ELSE Rerun(runs, kind, trailRows', trafficRows', neighNames,
                                    neighbourhoodCache)
         ELSE UNCHANGED <<trailRows, trafficRows, loading, runs>>
      /\ UNCHANGED <<kind, view, neighNames, neighbourhoodCache, arg, ret, expanded, siteVars>>

\* await fetch(url) resolved with an OK response: load() goes on to res.json()
FetchOk(i) ==
  /\ i \in DOMAIN fetches
  /\ fetches[i].pc = "fetch"
  /\ fetches' = [fetches EXCEPT ![i].pc = "json"]
  /\ UNCHANGED <<kind, view, trailRows, trafficRows, neighNames, loading,
                 neighbourhoodCache, runs, escaped, arg, ret, expanded, siteVars>>

\* await fetch(url) rejected, or resolved with a non-OK response (throw new Error)
FetchFail(i) ==
  /\ i \in DOMAIN fetches
  /\ fetches[i].pc = "fetch"
  /\ Settle(i, Thrown)

\* await res.json() settled with body
FetchJson(i, body) ==
  /\ i \in DOMAIN fetches
  /\ fetches[i].pc = "json"
  /\ Settle(i, TryBody(fetches[i].kind, body))

\* the dataset select (line 415): setKind, then the cleanups and the effects of
\* the render that follows
SetKind(k) ==
  /\ k \in Kinds
  /\ k # kind
  /\ Len(fetches) < MaxFetches
  /\ kind' = k
  /\ fetches' = Append([i \in DOMAIN fetches |-> [fetches[i] EXCEPT !.cancelled = TRUE]],
                       [kind |-> k, cancelled |-> FALSE, pc |-> "fetch"])
  /\ loading' = TRUE
  /\ runs' = Rerun(runs, k, trailRows, trafficRows, neighNames, neighbourhoodCache)
  /\ UNCHANGED <<view, trailRows, trafficRows, neighNames, neighbourhoodCache,
                 escaped, arg, ret, expanded, siteVars>>

\* the map / list switch (line 431)
SetView(v) ==
  /\ v \in {"map", "list"}
  /\ v # view
  /\ view' = v
  /\ UNCHANGED <<kind, trailRows, trafficRows, neighNames, loading,
                 neighbourhoodCache, fetches, runs, escaped, arg, ret, expanded, siteVars>>

-----------------------------------------------------------------------------
(* The lookups of a run *)

\* the answer to the query in flight of lookup j of run i arrives; when that
\* was the last lookup of a cancelled run, the run returns at line 249
LookupResponse(i, j, resp) ==
  /\ i \in DOMAIN runs
  /\ j \in DOMAIN runs[i].lookups
  /\ runs[i].lookups[j].pc \in {"q1", "q2"}
  /\ LET l2 == LookupStep(runs[i].lookups[j], resp)
         r2 == [runs[i] EXCEPT !.lookups[j] = l2]
     IN  /\ runs' = IF r2.cancelled /\ Finished(r2) THEN Without(runs, i)
                    ELSE [runs EXCEPT ![i] = r2]
         /\ neighbourhoodCache' = CacheAfter(neighbourhoodCache, l2)
  /\ UNCHANGED <<kind, view, trailRows, trafficRows, neighNames, loading,
                 fetches, escaped, arg, ret, expanded, siteVars>>

\* Promise.all of the current run resolved: the run publishes its results
\* (lines 250-254), and the render that follows runs the effect again
Join(i) ==
  /\ i \in DOMAIN runs
  /\ ~runs[i].cancelled
  /\ Finished(runs[i])
  /\ neighNames' = Merge(neighNames, ResultsOf(runs[i].lookups))
  /\ runs' = Rerun(Without(runs, i), kind, trailRows, trafficRows,
                   neighNames', neighbourhoodCache)
  /\ UNCHANGED <<kind, view, trailRows, trafficRows, loading, neighbourhoodCache,
                 fetches, escaped, arg, ret, expanded, siteVars>>

-----------------------------------------------------------------------------
(* The component among its datasets *)

\* two trail closures whose details differ only in case: the first is located
\* by its coordinates alone, the second carries a location name
TrailRowA ==
  [EmptyRow EXCEPT !.infrastructure = <<"A">>, !.details = <<"b">>,
                   !.latitude = <<"1">>, !.longitude = <<"2">>]

TrailRowB ==
  [EmptyRow EXCEPT !.infrastructure = <<"B">>, !.details = <<"B">>,
                   !.location_name = <<"B">>,
                   !.latitude = <<"1">>, !.longitude = <<"2">>]

\* a traffic disruption at the same place, located by its point only
TrafficRowA ==
  [EmptyRow EXCEPT !.description = <<"a">>, !.point = PointString(<<"2", " ", "1">>)]

\* what res.json() of the dataset request may give
BodiesOf(k) ==
  IF k = "trail"
  THEN {BodySyntaxError, BodyNotArray, BodyArray(<<TrailRowA, TrailRowB>>)}
  ELSE {BodySyntaxError, BodyNotArray, BodyArray(<<TrafficRowA>>)}

\* what a neighbourhood request may give
Responses ==
  {ResponseError, ResponseNotOk, ResponseOk(Undef), ResponseOk(<<" ">>),
   ResponseOk(<<" ", "A">>)}

\* the component mounted: its first render done and load() of the first
\* effect waiting for the trail dataset
Init ==
  /\ kind = "trail"
  /\ view = "map"
  /\ trailRows = <<>>
  /\ trafficRows = <<>>
  /\ neighNames = EmptyMap
  /\ loading = TRUE
  /\ neighbourhoodCache = EmptyMap
  /\ fetches = <<[kind |-> "trail", cancelled |-> FALSE, pc |-> "fetch"]>>
  /\ runs = <<>>
  /\ escaped = FALSE
  /\ expanded = EmptyMap
  /\ PageMounted
  /\ arg = <<>>
  /\ ret = <<>>

Next ==
  \/ \E k \in Kinds : SetKind(k)
  \/ \E v \in {"map", "list"} : SetView(v)
  \/ \E i \in DOMAIN fetches : FetchOk(i)
  \/ \E i \in DOMAIN fetches : FetchFail(i)
  \/ \E i \in DOMAIN fetches : \E body \in BodiesOf(fetches[i].kind) : FetchJson(i, body)
  \/ \E i \in DOMAIN runs : \E j \in DOMAIN runs[i].lookups :
       \E resp \in Responses : LookupResponse(i, j, resp)
  \/ \E i \in DOMAIN runs : Join(i)

Spec == Init /\ [][Next]_vars

\* what the items memo holds and what is on screen, both functions of the state
items == Items(kind, trailRows, trafficRows)

rendered == Render(view, loading, kind, trailRows, trafficRows, neighNames)

-----------------------------------------------------------------------------
(* Claims about the load effect *)

\* the load() call started last
Latest == Len(fetches)

\* C1: the result of a superseded fetch is never applied. A step in which a
\* cancelled load() moves on leaves trailRows, trafficRows and loading as they
\* were, and every step that changes one of them is either the start of a new
\* load() (setLoading(true)) or a step of the load() started last.
C1_SupersededNeverApplied ==
  [][ /\ \A i \in DOMAIN fetches :
           (fetches[i].cancelled /\ fetches'[i].pc # fetches[i].pc)
             => (trailRows' = trailRows /\ trafficRows' = trafficRows /\ loading' = loading)
      /\ (trailRows' # trailRows \/ trafficRows' # trafficRows \/ loading' # loading)
           => \/ Len(fetches') > Len(fetches)
              \/ fetches'[Latest].pc # fetches[Latest].pc ]_vars

\* C1 witness: the superseded trail fetch has completed while the traffic
\* fetch is still in flight, and neither the rows nor the loading flag moved
C1_Witness ==
  /\ Len(fetches) = 2
  /\ fetches[1].cancelled /\ fetches[1].pc = "done"
  /\ fetches[2].pc # "done"
  /\ trailRows = <<>> /\ trafficRows = <<>> /\ loading

\* the dataset answers that make the load fail: a SyntaxError of res.json()
\* or a body that is no array
FailingBodies == {BodySyntaxError, BodyNotArray}

\* C7: when the current fetch fails (the fetch rejects or is not OK, the body
\* does not parse or is no array) the rows of the selected kind become empty,
\* loading becomes false, the rows of the other kind stay, and no exception
\* leaves the effect.
C7_FailureResetsRows ==
  [][ \A i \in DOMAIN fetches :
        ( /\ ~fetches[i].cancelled
          /\ \/ FetchFail(i)
             \/ \E body \in FailingBodies : FetchJson(i, body) )
        => /\ RowsOf(kind, trailRows', trafficRows') = <<>>
           /\ loading' = FALSE
           /\ kind' = kind
           /\ RowsOf(IF kind = "trail" THEN "traffic" ELSE "trail", trailRows', trafficRows')
                = RowsOf(IF kind = "trail" THEN "traffic" ELSE "trail", trailRows, trafficRows)
           /\ escaped' = FALSE ]_vars

\* C7 witness: back on trail after a round trip through traffic, the third
\* load has failed: no trail rows, the traffic rows still there, loading off
C7_Witness ==
  /\ Len(fetches) = 3
  /\ kind = "trail"
  /\ fetches[3].pc = "done"
  /\ trailRows = <<>>
  /\ trafficRows # <<>>
  /\ ~loading
  /\ ~escaped

-----------------------------------------------------------------------------
(* Claims about fetchNeighbourhoodName *)

Range(seq) == {seq[i] : i \in DOMAIN seq}

\* every call of fetchNeighbourhoodName that a run still holds
AllLookups == UNION {Range(runs[i].lookups) : i \in DOMAIN runs}

\* the shape of one call: at most two requests; the geometry query (q2) is in
\* flight only after the the_geom query gave no name; a returned call either
\* hit the cache without a request, or returns the first name heard, trimmed
\* and non-empty, or NO_LOC after two queries without a name
CallShape(l) ==
  /\ l.reqs <= 2
  /\ l.pc = "q1" => (l.reqs = 1 /\ l.heard = <<>>)
  /\ l.pc = "q2" => (l.reqs = 2 /\ l.heard = <<Undef>>)
  /\ l.pc = "done" =>
       \/ l.reqs = 0 /\ l.heard = <<>> /\ Truthy(l.name)
       \/ /\ l.reqs >= 1 /\ Len(l.heard) = l.reqs
          /\ \A n \in 1..(l.reqs - 1) : l.heard[n] = Undef
          /\ IF Truthy(l.heard[l.reqs])
             THEN l.name = l.heard[l.reqs] /\ Trim(l.name) = l.name
             ELSE l.name = NO_LOC /\ l.reqs = 2

\* a step that starts a run: the run last in runs' is new and untouched
StartsRun ==
  /\ runs' # <<>>
  /\ ~runs'[Len(runs')].cancelled
  /\ runs'[Len(runs')] \notin Range(runs)
  /\ \A j \in DOMAIN runs'[Len(runs')].lookups : runs'[Len(runs')].lookups[j].heard = <<>>

\* the steps of a call against the cache: a call that starts on a cached key
\* returns the cached name without a request and one that starts on a miss
\* sends one request; a call that returns after a request leaves its name in
\* the cache under its key, and a call that goes on to its second query
\* leaves the cache alone
CallSteps ==
  /\ StartsRun =>
       \A j \in DOMAIN runs'[Len(runs')].lookups :
         LET l == runs'[Len(runs')].lookups[j]
         IN  IF Truthy(NameOf(neighbourhoodCache, l.key))
             THEN l.pc = "done" /\ l.reqs = 0 /\ l.name = neighbourhoodCache[l.key]
             ELSE l.pc = "q1" /\ l.reqs = 1
  /\ \A i \in DOMAIN runs : \A j \in DOMAIN runs[i].lookups : \A resp \in Responses :
       LookupResponse(i, j, resp) =>
         LET l2 == LookupStep(runs[i].lookups[j], resp)
         IN  IF l2.pc = "done"
             THEN NameOf(neighbourhoodCache', l2.key) = l2.name
             ELSE neighbourhoodCache' = neighbourhoodCache

\* C5: on a miss a call issues at most two requests, one after the other, and
\* returns the first non-empty trimmed name, caching it under its key; on a
\* hit it issues none.
C5_TwoSequentialQueries ==
  /\ [](\A l \in AllLookups : CallShape(l))
  /\ [][CallSteps]_vars

\* C5 witness: a call returned a name from its second query, after the first
\* gave none, and the cache holds that name under the call's key
C5_Witness ==
  \E l \in AllLookups :
    /\ l.pc = "done" /\ l.reqs = 2 /\ l.heard = <<Undef, <<"A">>>>
    /\ l.name = <<"A">>
    /\ NameOf(neighbourhoodCache, l.key) = <<"A">>

\* C4: once a call has exhausted both queries and cached NO_LOC for a key,
\* the key keeps NO_LOC, so that every later call returns NO_LOC from the
\* cache: no step replaces a cached NO_LOC.
C4_NegativeResultStays ==
  [][\A k \in DOMAIN neighbourhoodCache :
       neighbourhoodCache[k] = NO_LOC => neighbourhoodCache'[k] = NO_LOC]_vars

-----------------------------------------------------------------------------
(* Claims about the list *)

\* C2: in list view the cards are the deduplicated set: one card for each
\* row of the items memo and no other.
C2_ListShowsDedupedRows ==
  rendered.what = "list" =>
    /\ Len(rendered.cards) = Len(items)
    /\ Range(rendered.cards) = Range(CardsOf(kind, items, neighNames))

-----------------------------------------------------------------------------
(* The helpers applied on their own: arg is the call, ret what it returned *)

NotCalled == [t |-> "none", v |-> <<>>]

\* the component as mounted, untouched while a helper is applied
Mounted ==
  /\ kind = "trail"
  /\ view = "map"
  /\ trailRows = <<>>
  /\ trafficRows = <<>>
  /\ neighNames = EmptyMap
  /\ loading = TRUE
  /\ neighbourhoodCache = EmptyMap
  /\ fetches = <<[kind |-> "trail", cancelled |-> FALSE, pc |-> "fetch"]>>
  /\ runs = <<>>
  /\ escaped = FALSE
  /\ expanded = EmptyMap
  /\ PageMounted

\* all sequences over S of length at most n
SeqsUpTo(S, n) == UNION {[1..m -> S] : m \in 0..n}

\* the longest row sequence handed to the items memo
MaxRows == 3

\* long texts: missing, blank, and texts that differ in case, in white space
\* around them, or are a prefix of one another
Texts ==
  {Undef, <<" ">>, <<"a">>, <<"b">>, <<"B">>, <<" ", "b">>, <<"b", " ">>, <<"b", "a">>}

\* the i-th row of a dataset with this long text; infrastructure tells the rows apart
TextRow(k, i, text) ==
  IF k = "trail"
  THEN [EmptyRow EXCEPT !.infrastructure = NumToString(i), !.details = text]
  ELSE [EmptyRow EXCEPT !.infrastructure = NumToString(i), !.description = text]

ItemsArgs ==
  {[op |-> "items", kind |-> k, rows |-> [i \in DOMAIN ts |-> TextRow(k, i, ts[i])]] :
     k \in Kinds, ts \in SeqsUpTo(Texts, MaxRows)}

\* rows for one card: end_date and duration missing, empty or given
CardRows ==
  {[EmptyRow EXCEPT !.end_date = e, !.duration = d, !.details = t, !.description = t] :
     e \in {Undef, <<>>, <<"2", "0", "2", "5">>},
     d \in {Undef, <<>>, <<"2", " ", "w">>, NO_LOC},
     t \in {Undef, <<"a">>}}

CardArgs ==
  {[op |-> "card", kind |-> k, rows |-> <<r>>] : k \in Kinds, r \in CardRows}

InitRender ==
  /\ Mounted
  /\ arg \in ItemsArgs \cup CardArgs
  /\ ret = NotCalled

\* the items memo computed for the rows of the selected kind
ApplyItems ==
  /\ arg.op = "items"
  /\ ret = NotCalled
  /\ ret' = Returned(Items(arg.kind, arg.rows, arg.rows))
  /\ UNCHANGED <<compVars, arg>>

\* one card of the list rendered
ApplyCard ==
  /\ arg.op = "card"
  /\ ret = NotCalled
  /\ ret' = Returned(Card(arg.kind, arg.rows[1], EmptyMap))
  /\ UNCHANGED <<compVars, arg>>

NextRender == ApplyItems \/ ApplyCard

SpecRender == InitRender /\ [][NextRender]_vars

\* the dedupe key the claims speak of: the long text trimmed and lower-cased
TextKey(k, r) == ToLowerCase(Trim(OrElse(LongTextOf(k, r), <<>>)))

\* the long text lower-cased, the sort key
TextLower(k, r) == ToLowerCase(OrElse(LongTextOf(k, r), <<>>))

\* C3: items holds exactly one row for each distinct trimmed, lower-cased
\* long text of the input, namely the first input row with it, and its rows
\* are in non-decreasing case-insensitive order of the long text.
C3_DedupeFirstAndSorted ==
  (arg.op = "items" /\ ret.t = "return") =>
    LET in  == arg.rows
        out == ret.v
        k   == arg.kind
    IN  /\ \A i, j \in DOMAIN out : i # j => TextKey(k, out[i]) # TextKey(k, out[j])
        /\ {TextKey(k, out[i]) : i \in DOMAIN out} = {TextKey(k, in[i]) : i \in DOMAIN in}
        /\ \A o \in DOMAIN out : \E i \in DOMAIN in :
             /\ in[i] = out[o]
             /\ \A j \in 1..(i - 1) : TextKey(k, in[j]) # TextKey(k, in[i])
        /\ \A i, j \in DOMAIN out :
             i < j => LocaleCompare(TextLower(k, out[i]), TextLower(k, out[j])) <= 0

\* C3 witness: three rows, the third a duplicate of the first up to case and
\* blanks, came out as two rows in the other order
C3_Witness ==
  /\ arg.op = "items" /\ ret.t = "return"
  /\ Len(arg.rows) = 3 /\ Len(ret.v) = 2
  /\ TextKey(arg.kind, arg.rows[1]) = TextKey(arg.kind, arg.rows[3])
  /\ LongTextOf(arg.kind, arg.rows[1]) # LongTextOf(arg.kind, arg.rows[3])
  /\ ret.v = <<arg.rows[2], arg.rows[1]>>

\* C10: the end-date field of a card is NO_LOC whenever the record has an
\* end_date; without one it is the duration when the record has one and
\* NO_LOC otherwise (a member that is missing or the empty string counts as
\* not there).
C10_EndDisplay ==
  (arg.op = "card" /\ ret.t = "return") =>
    LET r == arg.rows[1]
    IN  /\ Truthy(r.end_date) => ret.v.endDisplay = NO_LOC
        /\ (~Truthy(r.end_date) /\ Truthy(r.duration)) => ret.v.endDisplay = r.duration
        /\ (~Truthy(r.end_date) /\ ~Truthy(r.duration)) => ret.v.endDisplay = NO_LOC

\* C10 witness: a record with an end date and a duration, shown as NO_LOC
C10_Witness ==
  /\ arg.op = "card" /\ ret.t = "return"
  /\ arg.rows[1].end_date = <<"2", "0", "2", "5">>
  /\ arg.rows[1].duration = <<"2", " ", "w">>
  /\ ret.v.endDisplay = NO_LOC

-----------------------------------------------------------------------------
(* The normalizers applied on their own *)

\* the longest point string drawn from PointChars
MaxPointLen == 5

\* the longest geometry string drawn from GeomChars
MaxGeomLen == 3

PointChars == {"-", "1", ".", " "}

\* the point of the scenario: POINT (-113.49 53.55)
ExamplePoint ==
  <<"P", "O", "I", "N", "T", " ", "(", "-", "1", "1", "3", ".", "4", "9", " ",
    "5", "3", ".", "5", "5", ")">>

PointStrings ==
  {PointString(s) : s \in SeqsUpTo(PointChars, MaxPointLen) \cup {ExamplePoint, <<"2", " ", "1">>}}

PointObjects ==
  {PointObject(c, la, lo) :
     c  \in {NoCoordinates, Coordinates(<<>>), Coordinates(<<-113>>),
             Coordinates(<<-113, 53>>), Coordinates(<<-113, 53, 0>>)},
     la \in {JsUndef, JsNum(53), JsNum(0), JsStr(<<"5", "3">>), JsStr(<<>>), JsStr(<<"x">>)},
     lo \in {JsUndef, JsNum(-113), JsStr(<<"-", "1", "1", "3">>), JsStr(<<>>)}}

Points == {PointUndefined, PointNull} \cup PointStrings \cup PointObjects

GeomChars == {"{", "}", "1", "0", " "}

Geoms ==
  {GeomUndefined, GeomNull,
   GeomObject(JsonObject(<<"P", "o", "i", "n", "t">>)), GeomObject(JsonObject(<<>>))}
  \cup {GeomString(s) : s \in SeqsUpTo(GeomChars, MaxGeomLen) \cup {NullText, GeoText}}

PointArgs ==
  {[op |-> "point", kind |-> "traffic", rows |-> <<[EmptyRow EXCEPT !.point = p]>>] :
     p \in Points}

GeomArgs ==
  {[op |-> "geom", kind |-> k, rows |-> <<[EmptyRow EXCEPT !.geometry = g]>>] :
     k \in Kinds, g \in Geoms}

NormalizeArgs ==
  {[op |-> "normalize", kind |-> "traffic",
    rows |-> <<[EmptyRow EXCEPT !.latitude = la, !.longitude = lo, !.point = p]>>] :
     la \in {Undef, <<>>, <<"7">>}, lo \in {Undef, <<"8">>}, p \in Points}

InitPoint ==
  /\ Mounted
  /\ arg \in PointArgs \cup GeomArgs \cup NormalizeArgs
  /\ ret = NotCalled

\* parseTrafficPoint(point)
ApplyParseTrafficPoint ==
  /\ arg.op = "point"
  /\ ret = NotCalled
  /\ ret' = ParseTrafficPoint(arg.rows[1].point)
  /\ UNCHANGED <<compVars, arg>>

\* parseGeom(r.geometry ?? r.the_geom)
ApplyParseGeom ==
  /\ arg.op = "geom"
  /\ ret = NotCalled
  /\ ret' = ParseGeom(arg.rows[1].geometry)
  /\ UNCHANGED <<compVars, arg>>

\* the callback of data.map applied to one traffic row
ApplyNormalize ==
  /\ arg.op = "normalize"
  /\ ret = NotCalled
  /\ ret' = NormalizeRow(arg.rows[1])
  /\ UNCHANGED <<compVars, arg>>

NextPoint == ApplyParseTrafficPoint \/ ApplyParseGeom \/ ApplyNormalize

SpecPoint == InitPoint /\ [][NextPoint]_vars

\* a numeral: the whole string is one match of the numeric-token pattern
IsNumeric(s) == s # <<>> /\ s # Undef /\ MatchEnd(s, 1) = Len(s) + 1

\* C8: a traffic row that has both latitude and longitude comes out unchanged
\* whatever its point is; a row lacking one of them (missing or empty) gets
\* longitude / latitude from its point: the first / second numeric token of a
\* point string, coordinates[0] / coordinates[1] of a coordinates object, or
\* the longitude / latitude members of an object; POINT (-113.49 53.55) gives
\* latitude "53.55" and longitude "-113.49". Nothing else of the row changes.
C8_NormalizeFromPoint ==
  (arg.op = "normalize" /\ ret.t # "none") =>
    LET r == arg.rows[1]
        p == r.point
    IN  /\ ret.t = "return"
        /\ \A f \in DOMAIN r \ {"latitude", "longitude"} : ret.v[f] = r[f]
        /\ (Truthy(r.latitude) /\ Truthy(r.longitude)) => ret.v = r
        /\ (~(Truthy(r.latitude) /\ Truthy(r.longitude))) =>
             /\ (p.t = "string" /\ Len(MatchAll(p.s, 1)) >= 2) =>
                  /\ ret.v.longitude = MatchAll(p.s, 1)[1]
                  /\ ret.v.latitude = MatchAll(p.s, 1)[2]
             /\ (p.t = "string" /\ p.s = ExamplePoint) =>
                  /\ ret.v.latitude = <<"5", "3", ".", "5", "5">>
                  /\ ret.v.longitude = <<"-", "1", "1", "3", ".", "4", "9">>
             /\ (p.t = "object" /\ p.coordinates.isArray /\ Len(p.coordinates.elems) >= 2) =>
                  /\ ret.v.longitude = NumToString(p.coordinates.elems[1])
                  /\ ret.v.latitude = NumToString(p.coordinates.elems[2])
             /\ ( /\ p.t = "object"
                  /\ ~(p.coordinates.isArray /\ Len(p.coordinates.elems) >= 2)
                  /\ p.latitude.t # "undefined" /\ p.longitude.t # "undefined"
                  /\ ToStr(p.latitude) # <<>> /\ ToStr(p.longitude) # <<>> ) =>
                  /\ ret.v.longitude = ToStr(p.longitude)
                  /\ ret.v.latitude = ToStr(p.latitude)

\* C8 witness: the scenario's row, without latitude and longitude, normalized
C8_Witness ==
  /\ arg.op = "normalize" /\ ret.t = "return"
  /\ arg.rows[1].latitude = Undef /\ arg.rows[1].longitude = Undef
  /\ arg.rows[1].point = PointString(ExamplePoint)
  /\ ret.v.latitude = <<"5", "3", ".", "5", "5">>
  /\ ret.v.longitude = <<"-", "1", "1", "3", ".", "4", "9">>

\* C9: parseTrafficPoint returns, for every point, {} or a pair whose lat and
\* lon are both numeric, and parseGeom returns, for every geometry value, null
\* or an object; neither raises.
C9_NormalizersTotal ==
  /\ (arg.op = "point" /\ ret.t # "none") =>
       /\ ret.t = "return"
       /\ ret.v = NoPair \/ (IsNumeric(ret.v.lat) /\ IsNumeric(ret.v.lon))
  /\ (arg.op = "geom" /\ ret.t # "none") =>
       /\ ret.t = "return"
       /\ ret.v.t \in {"null", "object"}

-----------------------------------------------------------------------------
(* A dataset larger than one batch of lookups *)

\* one row more than a batch holds
BigRows == SliceLimit + 1

\* the i-th closure: no location name, coordinates of its own
BigRow(i) ==
  [EmptyRow EXCEPT !.infrastructure = NumToString(i), !.details = NumToString(i),
                   !.latitude = NumToString(i), !.longitude = <<"1">>]

BigDataset == [i \in 1..BigRows |-> BigRow(i)]

\* the rows whose coordinates no earlier mount of the component has looked up
ColdRows == {1, 2, SliceLimit, BigRows}

\* the module-level cache outlives the component: what an earlier mount left
WarmCache ==
  [k \in {KeyOf(NumToString(i), <<"1">>) : i \in (1..BigRows) \ ColdRows} |-> <<"A">>]

\* the component mounted again in the same page
InitFanout ==
  /\ kind = "trail"
  /\ view = "map"
  /\ trailRows = <<>>
  /\ trafficRows = <<>>
  /\ neighNames = EmptyMap
  /\ loading = TRUE
  /\ neighbourhoodCache = WarmCache
  /\ fetches = <<[kind |-> "trail", cancelled |-> FALSE, pc |-> "fetch"]>>
  /\ runs = <<>>
  /\ escaped = FALSE
  /\ expanded = EmptyMap
  /\ PageMounted
  /\ arg = <<>>
  /\ ret = <<>>

\* one load of the trail dataset and everything that follows it, the dataset
\* select left alone
NextFanout ==
  \/ \E v \in {"map", "list"} : SetView(v)
  \/ \E i \in DOMAIN fetches : FetchOk(i)
  \/ \E i \in DOMAIN fetches : FetchFail(i)
  \/ \E i \in DOMAIN fetches :
       \E body \in {BodySyntaxError, BodyArray(BigDataset)} : FetchJson(i, body)
  \/ \E i \in DOMAIN runs : \E j \in DOMAIN runs[i].lookups :
       \E resp \in Responses : LookupResponse(i, j, resp)
  \/ \E i \in DOMAIN runs : Join(i)

SpecFanout == InitFanout /\ [][NextFanout]_vars

\* C6: within one load cycle (a behaviour of SpecFanout has one load and no
\* dataset switch) at most SliceLimit distinct coordinates get a name
\* published; the rows beyond them keep showing NO_LOC.
C6_AtMostOneBatchPerCycle ==
  /\ Cardinality(DOMAIN neighNames) <= SliceLimit
  /\ \A i \in DOMAIN trailRows :
       i > SliceLimit => ~Truthy(NameOf(neighNames, KeyOf(trailRows[i].latitude, trailRows[i].longitude)))

-----------------------------------------------------------------------------
(* The details of a card and its toggle (lines 299-300, 502-511, 544-559) *)

\* longText.length > 220
ExpandLimit == 220

\* the one-character ellipsis that ends a cut text
Ellipsis == <<"...">>

\* x ?? d
Nullish(s, d) == IF s = Undef THEN d ELSE s

\* a key without the positional index
CardKeyNoIndex(title, r, idx) == title \o <<"-">> \o Nullish(r.start_date, <<>>)

\* `${title}-${r.start_date ?? ""}-${idx}` (line 506)
CardKey(title, r, idx) ==
  title \o <<"-">> \o Nullish(r.start_date, <<>>) \o <<"-">> \o NumToString(idx)

\* !!expanded[key] (line 507)
IsExpanded(exp, key) == key \in DOMAIN exp /\ exp[key]

\* a cut that keeps the blanks at the ends of the slice
ShownUntrimmed(longText, isExpanded) ==
  IF ~isExpanded /\ Len(longText) > ExpandLimit
  THEN SubSeq(longText, 1, ExpandLimit) \o Ellipsis
  ELSE longText

\* shown (lines 508-511)
Shown(longText, isExpanded) ==
  IF ~isExpanded /\ Len(longText) > ExpandLimit
  THEN Trim(SubSeq(longText, 1, ExpandLimit)) \o Ellipsis
  ELSE longText

\* the Details paragraph of the card of row r at index idx (lines 502-511, 544-559)
\*   visible  the paragraph is rendered ({!!longText && ...})
\*   text     what its span shows ({shown || "N/A"})
\*   toggle   the button is rendered,  label  what the button says
Details(k, r, idx, names, exp) ==
  LET longText   == OrElse(LongTextOf(k, r), <<>>)
      key        == CardKey(TitleOf(r, names), r, idx)
      isExpanded == IsExpanded(exp, key)
  IN  [key     |-> key,
       full    |-> longText,
       visible |-> Truthy(longText),
       text    |-> OrElse(Shown(longText, isExpanded), NO_LOC),
       toggle  |-> Truthy(longText) /\ Len(longText) > ExpandLimit,
       label   |-> IF isExpanded THEN "Show less" ELSE "Show more"]

\* the Details paragraphs of the list, idx counting from 0
DetailsOf(k, rows, names, exp) ==
  [i \in DOMAIN rows |-> Details(k, rows[i], i - 1, names, exp)]

\* the paragraphs on screen: none unless the list is rendered
details ==
  IF rendered.what = "list"
  THEN DetailsOf(kind, RowsOf(kind, trailRows, trafficRows), neighNames, expanded)
  ELSE <<>>

\* toggleExpand(key) from the button of card i (lines 299-300, 552)
ToggleExpand(i) ==
  /\ i \in DOMAIN details
  /\ details[i].toggle
  /\ expanded' = Put(expanded, details[i].key, ~IsExpanded(expanded, details[i].key))
  /\ UNCHANGED <<kind, view, trailRows, trafficRows, neighNames, loading,
                 neighbourhoodCache, fetches, runs, escaped, arg, ret, siteVars>>

\* n times the character c
Letters(n, c) == [i \in 1..n |-> c]

\* the scenario's text length
ScenarioLen == 300

\* closures with a location name: one character over the limit, the same
\* closure again, the scenario's text, a text whose 220th character is a
\* blank, a text of exactly the limit, and no text
CardDataset ==
  LET row(infra, text) ==
        [EmptyRow EXCEPT !.infrastructure = infra, !.location_name = <<"B">>,
                         !.start_date = <<"2", "0", "2", "5">>, !.details = text]
  IN  << row(<<"A">>, Letters(ExpandLimit + 1, "a")),
         row(<<"A">>, Letters(ExpandLimit + 1, "a")),
         row(<<"B">>, Letters(ScenarioLen, "b")),
         row(<<"B">>, Letters(ExpandLimit - 1, "a") \o <<" ", "b">>),
         row(<<"B">>, Letters(ExpandLimit, "a")),
         row(<<"B">>, Undef) >>

\* the component with that trail dataset, the dataset select left alone
NextCards ==
  \/ \E v \in {"map", "list"} : SetView(v)
  \/ \E i \in DOMAIN fetches : FetchOk(i)
  \/ \E i \in DOMAIN fetches : FetchFail(i)
  \/ \E i \in DOMAIN fetches :
       \E body \in {BodySyntaxError, BodyArray(CardDataset)} : FetchJson(i, body)
  \/ \E i \in DOMAIN details : ToggleExpand(i)

SpecCards == Init /\ [][NextCards]_vars

-----------------------------------------------------------------------------
(* Claims about the card details *)

\* card i was collapsed and its toggle has just been activated
Activated(i) ==
  /\ i \in DOMAIN details
  /\ details[i].toggle
  /\ ~IsExpanded(expanded, details[i].key)
  /\ expanded' = Put(expanded, details[i].key, TRUE)

\* what holds of every card whatever the cut of a collapsed long text is: a
\* long text has a toggle and is shown in full when expanded, a text of at
\* most ExpandLimit characters is shown in full without a toggle
ShownInFull ==
  \A i \in DOMAIN details :
    LET d == details[i]
    IN  /\ (Len(d.full) > ExpandLimit) => d.toggle
        /\ (Len(d.full) > ExpandLimit /\ IsExpanded(expanded, d.key)) => d.text = d.full
        /\ (Len(d.full) <= ExpandLimit) => (~d.toggle /\ (d.visible => d.text = d.full))

\* C11 as stated: every collapsed card with a long text of more than
\* ExpandLimit characters shows exactly its first ExpandLimit characters
\* followed by an ellipsis, with a toggle; activating the toggle shows the
\* full text; a text of at most ExpandLimit characters is shown in full
\* without a toggle.
C11_CollapsedShowsFirst220 ==
  /\ [](/\ ShownInFull
        /\ \A i \in DOMAIN details :
             (Len(details[i].full) > ExpandLimit /\ ~IsExpanded(expanded, details[i].key))
               => details[i].text = SubSeq(details[i].full, 1, ExpandLimit) \o Ellipsis)
  /\ [][\A i \in DOMAIN details : Activated(i) => details'[i].text = details[i].full]_vars

\* C11 amended: the collapsed card shows the first ExpandLimit characters
\* with the white space at both ends of that slice removed, followed by an
\* ellipsis, with a toggle; activating the toggle shows the full text; a text
\* of at most ExpandLimit characters is shown in full without a toggle.
C11_CollapsedShowsTrimmedSlice ==
  /\ [](/\ ShownInFull
        /\ \A i \in DOMAIN details :
             (Len(details[i].full) > ExpandLimit /\ ~IsExpanded(expanded, details[i].key))
               => details[i].text = Trim(SubSeq(details[i].full, 1, ExpandLimit)) \o Ellipsis)
  /\ [][\A i \in DOMAIN details : Activated(i) => details'[i].text = details[i].full]_vars

\* C11 witness: the scenario's card expanded and showing its 300 characters,
\* the card whose 220th character is a blank still collapsed and showing 219
\* characters and the ellipsis
C11_Witness ==
  /\ Len(details) = 6
  /\ IsExpanded(expanded, details[3].key)
  /\ Len(details[3].text) = ScenarioLen
  /\ ~IsExpanded(expanded, details[4].key)
  /\ details[4].toggle
  /\ Len(details[4].text) = ExpandLimit

\* the toggle of card i has just been activated
Toggled(i) ==
  /\ i \in DOMAIN details
  /\ details[i].toggle
  /\ expanded' = Put(expanded, details[i].key, ~IsExpanded(expanded, details[i].key))

\* C12: the keys of the cards on screen are pairwise distinct, and activating
\* the toggle of one card flips that card's expanded state and leaves the
\* expanded state of every other card as it was.
C12_ToggleFlipsOneCard ==
  /\ [](\A i, j \in DOMAIN details : i # j => details[i].key # details[j].key)
  /\ [][\A i \in DOMAIN details :
          Toggled(i) =>
            /\ IsExpanded(expanded', details[i].key) = ~IsExpanded(expanded, details[i].key)
            /\ \A j \in DOMAIN details \ {i} :
                 IsExpanded(expanded', details[j].key) = IsExpanded(expanded, details[j].key)]_vars

\* C12 witness: of two cards with the same title and start date the first is
\* expanded and the second, toggled twice, is collapsed
C12_Witness ==
  /\ Len(details) = 6
  /\ TitleOf(trailRows[1], neighNames) = TitleOf(trailRows[2], neighNames)
  /\ trailRows[1].start_date = trailRows[2].start_date
  /\ IsExpanded(expanded, details[1].key)
  /\ details[2].key \in DOMAIN expanded
  /\ ~IsExpanded(expanded, details[2].key)

-----------------------------------------------------------------------------
(* GET /api/parks (src/unnamed/part_006) *)

\* the longest upstream body drawn from GeomChars
MaxBodyLen == 3

\* JSON.stringify of a value JsonParse gives
JsonStringify(v) ==
  CASE v.t = "null" -> NullText
    [] v.t = "number" -> NumToString(v.n)
    [] v.t = "object" /\ v.type = <<>> -> <<"{", "}">>
    [] OTHER -> GeoText

\* new Response(body, { status, headers }): json is the body of a JSON
\* response, text the body of a plain-text one
JsonResponse(json) == [status |-> 200, json |-> json, text |-> "", contentType |-> "application/json"]

ErrorResponse(text) == [status |-> 500, json |-> <<>>, text |-> text, contentType |-> "text/plain"]

\* a handler without its try / catch
GETNoCatch(u) ==
  IF u.fetch = "reject" THEN Thrown
  ELSE IF u.fetch = "notok" THEN Returned(ErrorResponse("Fetch error"))
  ELSE LET data == JsonParse(u.body)
       IN  IF data.t = "throw" THEN Thrown
           ELSE Returned(JsonResponse(JsonStringify(data.v)))

\* GET (lines 1-17); u is what the upstream gave: the fetch rejected, or a
\* response with a status that is OK or not and a body text
GET(u) ==
  IF u.fetch = "reject" THEN Returned(ErrorResponse("Server error"))
  ELSE IF u.fetch = "notok" THEN Returned(ErrorResponse("Fetch error"))
  ELSE LET data == JsonParse(u.body)
       IN  IF data.t = "throw" THEN Returned(ErrorResponse("Server error"))
           ELSE Returned(JsonResponse(JsonStringify(data.v)))

Upstreams ==
  {[fetch |-> "reject", body |-> <<>>]}
  \cup {[fetch |-> f, body |-> b] :
          f \in {"ok", "notok"},
          b \in SeqsUpTo(GeomChars, MaxBodyLen) \cup {NullText, GeoText}}

InitApi ==
  /\ Mounted
  /\ arg \in {[op |-> "GET", upstream |-> u] : u \in Upstreams}
  /\ ret = NotCalled

\* one request handled
ApplyGET ==
  /\ arg.op = "GET"
  /\ ret = NotCalled
  /\ ret' = GET(arg.upstream)
  /\ UNCHANGED <<compVars, arg>>

NextApi == ApplyGET

SpecApi == InitApi /\ [][NextApi]_vars

\* the handler returned a response with status 200 or 500, the former exactly
\* when the upstream answered OK with a body that is JSON, the latter in plain text
StatusByUpstream ==
  /\ ret.t = "return"
  /\ ret.v.status \in {200, 500}
  /\ (ret.v.status = 200) <=>
       (arg.upstream.fetch = "ok" /\ JsonParse(arg.upstream.body).t = "return")
  /\ (ret.v.status = 500) =>
       (ret.v.contentType = "text/plain" /\ ret.v.text \in {"Fetch error", "Server error"})

\* C13 as stated: the handler never throws, answers 200 exactly when the
\* upstream is OK with a parseable JSON body and 500 in plain text otherwise,
\* and the body of a 200 answer is the upstream body verbatim.
C13_UpstreamBodyVerbatim ==
  (arg.op = "GET" /\ ret.t # "none") =>
    /\ StatusByUpstream
    /\ (ret.v.status = 200) => ret.v.json = arg.upstream.body

\* C13 amended: as above, but the body of a 200 answer is the upstream JSON
\* value serialized again: it parses to the value the upstream body parses
\* to, while white space around it is not kept.
C13_UpstreamValueReserialized ==
  (arg.op = "GET" /\ ret.t # "none") =>
    /\ StatusByUpstream
    /\ (ret.v.status = 200) =>
         /\ JsonParse(ret.v.json) = JsonParse(arg.upstream.body)
         /\ ret.v.json = Trim(ret.v.json)
         /\ ret.v.contentType = "application/json"

\* C13 witness: an upstream body with a blank before the value answered with
\* status 200 and the value without the blank
C13_Witness ==
  /\ arg.op = "GET" /\ ret.t = "return"
  /\ arg.upstream.fetch = "ok"
  /\ arg.upstream.body = <<" ", "1", "0">>
  /\ ret.v.status = 200
  /\ ret.v.json = <<"1", "0">>

-----------------------------------------------------------------------------
(* Claims about the cache as a whole *)

\* C14: no step removes a key from the neighbourhood cache, and every cached
\* value is NO_LOC or a non-empty name without white space around it.
C14_CacheOnlyGrows ==
  /\ [](\A k \in DOMAIN neighbourhoodCache :
          \/ neighbourhoodCache[k] = NO_LOC
          \/ /\ Truthy(neighbourhoodCache[k])
             /\ Trim(neighbourhoodCache[k]) = neighbourhoodCache[k])
  /\ [][DOMAIN neighbourhoodCache \subseteq DOMAIN neighbourhoodCache']_vars

\* C14 witness: a key cached during the first trail load is still cached after
\* two kind switches, while the third load is in flight
C14_Witness ==
  /\ Len(fetches) = 3
  /\ fetches[3].pc = "fetch"
  /\ KeyOf(<<"1">>, <<"2">>) \in DOMAIN neighbourhoodCache
  /\ neighNames = EmptyMap

-----------------------------------------------------------------------------
(* MapPreview (lines 306-401) *)

\* the longest latitude string drawn from CoordChars
MaxCoordLen == 2

\* a decimal literal: sign, then digits with an optional fraction, or a
\* fraction alone
IsDecimalLiteral(t) ==
  LET u  == IF t # <<>> /\ t[1] \in {"-", "+"} THEN Tail(t) ELSE t
      e1 == DigitsEnd(u, 1)
  IN  /\ u # <<>>
      /\ \/ /\ e1 > 1
            /\ \/ e1 = Len(u) + 1
               \/ u[e1] = "." /\ DigitsEnd(u, e1 + 1) = Len(u) + 1
         \/ /\ e1 = 1
            /\ u[1] = "." /\ Len(u) >= 2 /\ DigitsEnd(u, 2) = Len(u) + 1

\* Number.isFinite(Number(s)) for a string without exponent, radix prefix or
\* "Infinity": white space around the literal is skipped, the empty string is 0
NumberIsFinite(s) == LET t == Trim(s) IN t = <<>> \/ IsDecimalLiteral(t)

\* if (geom): null and 0 are falsy
JsonTruthy(v) == ~(v.t = "null" \/ (v.t = "number" /\ v.n = 0))

\* what MapPreview returns
\*   "libs"      the neutral box shown until the map libraries are loaded
\*   "geometry"  a map with the geometry outline, centred on the fixed point
\*   "marker"    a map centred on Number(lat), Number(lon) with a marker
\*   "none"      the NO_LOC placeholder
Preview(what, center) == [what |-> what, center |-> center]

\* a preview that centres the map on whatever strings it is given
MapPreviewUnchecked(libs, lat, lon, geom) ==
  IF ~libs THEN Preview("libs", <<>>)
  ELSE IF JsonTruthy(geom) THEN Preview("geometry", <<>>)
  ELSE IF Truthy(lat) /\ Truthy(lon) THEN Preview("marker", <<lat, lon>>)
  ELSE Preview("none", <<>>)

\* MapPreview; libs: rl and leaflet are set (lines 157-158, 311)
MapPreview(libs, lat, lon, geom) ==
  IF ~libs THEN Preview("libs", <<>>)
  ELSE IF JsonTruthy(geom) THEN Preview("geometry", <<>>)
  ELSE IF Truthy(lat) /\ Truthy(lon) /\ NumberIsFinite(lat) /\ NumberIsFinite(lon)
       THEN Preview("marker", <<lat, lon>>)
  ELSE Preview("none", <<>>)

\* <MapPreview lat={lat} lon={lon} geom={geom} /> of the card of r (lines 483-484, 497, 523)
CardPreview(libs, r) ==
  MapPreview(libs, Trim(OrElse(r.latitude, <<>>)), Trim(OrElse(r.longitude, <<>>)),
             ParseGeom(r.geometry).v)

CoordChars == {"-", "1", ".", " ", "x"}

PreviewArgs ==
  {[op |-> "preview", libs |-> b,
    rows |-> <<[EmptyRow EXCEPT !.latitude = la, !.longitude = lo, !.geometry = g]>>] :
     b  \in BOOLEAN,
     la \in {Undef} \cup SeqsUpTo(CoordChars, MaxCoordLen),
     lo \in {Undef, <<>>, <<"1">>, <<"x">>, <<"-", "1", ".", "1">>},
     g  \in {GeomUndefined, GeomNull, GeomString(<<"{">>), GeomString(<<"0">>),
             GeomString(<<"1">>), GeomString(GeoText),
             GeomObject(JsonObject(<<"P", "o", "i", "n", "t">>))}}

InitPreview ==
  /\ Mounted
  /\ arg \in PreviewArgs
  /\ ret = NotCalled

\* the preview of one card rendered
ApplyPreview ==
  /\ arg.op = "preview"
  /\ ret = NotCalled
  /\ ret' = Returned(CardPreview(arg.libs, arg.rows[1]))
  /\ UNCHANGED <<compVars, arg>>

NextPreview == ApplyPreview

SpecPreview == InitPreview /\ [][NextPreview]_vars

\* the record's coordinates as the card hands them on
PreviewLat == Trim(OrElse(arg.rows[1].latitude, <<>>))

PreviewLon == Trim(OrElse(arg.rows[1].longitude, <<>>))

\* the preview is a map centred on the record's coordinates only when both
\* are there and convert to finite numbers
CentreOnlyWhenFinite ==
  ret.v.what = "marker" =>
    /\ Truthy(PreviewLat) /\ Truthy(PreviewLon)
    /\ NumberIsFinite(PreviewLat) /\ NumberIsFinite(PreviewLon)
    /\ ret.v.center = <<PreviewLat, PreviewLon>>

\* the record has no geometry, and a coordinate is absent or not a finite number
NoPlaceToShow ==
  /\ GeomFalsy(arg.rows[1].geometry)
  /\ \/ ~Truthy(PreviewLat) \/ ~Truthy(PreviewLon)
     \/ ~NumberIsFinite(PreviewLat) \/ ~NumberIsFinite(PreviewLon)

-----------------------------------------------------------------------------
(* A batch of several lookups *)

\* three closures without a location name, the first two at the same place
BatchDataset ==
  LET row(infra, lat) ==
        [EmptyRow EXCEPT !.infrastructure = infra, !.details = infra,
                         !.latitude = lat, !.longitude = <<"2">>]
  IN  << row(<<"A">>, <<"1">>), row(<<"B">>, <<"1">>), row(<<"a">>, <<"3">>) >>

\* one load of that trail dataset and the lookups that follow it
NextBatch ==
  \/ \E i \in DOMAIN fetches : FetchOk(i)
  \/ \E i \in DOMAIN fetches : FetchFail(i)
  \/ \E i \in DOMAIN fetches :
       \E body \in {BodySyntaxError, BodyArray(BatchDataset)} : FetchJson(i, body)
  \/ \E i \in DOMAIN runs : \E j \in DOMAIN runs[i].lookups :
       \E resp \in Responses : LookupResponse(i, j, resp)
  \/ \E i \in DOMAIN runs : Join(i)

SpecBatch == Init /\ [][NextBatch]_vars

-----------------------------------------------------------------------------
(* Claims about a batch *)

\* run i publishes in this step: it is current, and all its lookups returned
Publishes(i) ==
  /\ i \in DOMAIN runs
  /\ ~runs[i].cancelled
  /\ Finished(runs[i])
  /\ neighNames' # neighNames

\* C16: the lookups of a batch are all started in the step that starts the
\* run; neighNames changes only in the step of a run whose lookups have all
\* returned, and then holds, for every lookup of the batch that found a name,
\* that name under the lookup's key; NO_LOC appears only under the key of a
\* lookup that found nothing, and no other key changes.
C16_BatchJoinedOnce ==
  [][ /\ StartsRun =>
           \A j \in DOMAIN runs'[Len(runs')].lookups :
             LET l == runs'[Len(runs')].lookups[j]
             IN  (l.pc = "q1" /\ l.reqs = 1) \/ (l.pc = "done" /\ l.reqs = 0)
      /\ neighNames' # neighNames => \E i \in DOMAIN runs : Publishes(i)
      /\ \A i \in DOMAIN runs :
           Publishes(i) =>
             LET ls == runs[i].lookups
             IN  /\ \A j \in DOMAIN ls :
                      ls[j].name # NO_LOC => NameOf(neighNames', ls[j].k) = ls[j].name
                 /\ \A k \in DOMAIN neighNames' :
                      IF \E j \in DOMAIN ls : ls[j].k = k
                      THEN neighNames'[k] = NO_LOC =>
                             \E j \in DOMAIN ls : ls[j].k = k /\ ls[j].name = NO_LOC
                      ELSE k \in DOMAIN neighNames /\ neighNames'[k] = neighNames[k] ]_vars

-----------------------------------------------------------------------------
(* A request that may never be answered *)

\* the answer to a query of a lookup other than the first of its batch
AnswerOthers ==
  \E i \in DOMAIN runs : \E j \in DOMAIN runs[i].lookups \ {1} :
    \E resp \in Responses : LookupResponse(i, j, resp)

\* the component with the dataset of three rows; every request may be answered
NextHang ==
  \/ \E v \in {"map", "list"} : SetView(v)
  \/ \E i \in DOMAIN fetches : FetchOk(i)
  \/ \E i \in DOMAIN fetches : FetchFail(i)
  \/ \E i \in DOMAIN fetches :
       \E body \in {BodySyntaxError, BodyArray(BatchDataset)} : FetchJson(i, body)
  \/ \E i \in DOMAIN runs : \E j \in DOMAIN runs[i].lookups :
       \E resp \in Responses : LookupResponse(i, j, resp)
  \/ \E i \in DOMAIN runs : Join(i)

\* the dataset request is answered, promises that can settle do, and every
\* lookup request is answered except those of the first lookup of a batch,
\* which may hang forever
FairHang ==
  /\ WF_vars(\E i \in DOMAIN fetches : FetchOk(i) \/ FetchFail(i))
  /\ WF_vars(\E i \in DOMAIN fetches :
               \E body \in {BodySyntaxError, BodyArray(BatchDataset)} : FetchJson(i, body))
  /\ WF_vars(AnswerOthers)
  /\ WF_vars(\E i \in DOMAIN runs : Join(i))

SpecHang == Init /\ [][NextHang]_vars /\ FairHang

\* C17: a name resolved for a coordinate is eventually displayed also when a
\* request for another coordinate never completes, and the view switch and the
\* dataset select stay available throughout.
C17_HangBlocksOwnBranchOnly ==
  /\ (trailRows = BatchDataset /\ Truthy(NameOf(neighbourhoodCache, KeyOf(<<"3">>, <<"2">>))))
       ~> Truthy(NameOf(neighNames, KeyOf(<<"3">>, <<"2">>)))
  /\ [](ENABLED (\E v \in {"map", "list"} : SetView(v)))
  /\ [](ENABLED (\E k \in Kinds : SetKind(k)))

-----------------------------------------------------------------------------
(* Claims about the lifetime of records and cache entries *)

\* C18: after a switch of the dataset kind the component holds no records of
\* the kind that was selected before the switch.
C18_RecordsDroppedOnSwitch ==
  [][kind' # kind => RowsOf(kind, trailRows', trafficRows') = <<>>]_vars

\* C19: a value the neighbourhood cache holds for a key never changes.
C19_CachedValueNeverChanges ==
  [][\A k \in DOMAIN neighbourhoodCache :
       neighbourhoodCache'[k] = neighbourhoodCache[k]]_vars

-----------------------------------------------------------------------------
(* The loading flag *)

\* every dataset request is eventually answered and every body eventually read
FairLoads ==
  /\ WF_vars(\E i \in DOMAIN fetches : FetchOk(i) \/ FetchFail(i))
  /\ WF_vars(\E i \in DOMAIN fetches :
               \E body \in BodiesOf(fetches[i].kind) : FetchJson(i, body))

SpecLoads == Init /\ [][Next]_vars /\ FairLoads

\* C20: loading is true exactly while the most recently started load() has
\* not reached its end, and once the kind switches have stopped and every
\* request has been answered it is false for good.
C20_LoadingTracksLatest ==
  /\ [](loading <=> fetches[Latest].pc # "done")
  /\ <>[](~loading)

\* C20 witness: loading is false after a kind switch although the load the
\* switch superseded is still in flight
C20_Witness ==
  /\ Len(fetches) = 2
  /\ fetches[1].pc # "done"
  /\ fetches[2].pc = "done"
  /\ ~loading

-----------------------------------------------------------------------------
(* The neighbourhood effect comes to rest *)

\* Promise.all of the current run has resolved and run() has not gone on yet
JoinReady == \E i \in DOMAIN runs : ~runs[i].cancelled /\ Finished(runs[i])

\* every lookup request is eventually answered, and a run whose Promise.all
\* has resolved goes on to publish: weak fairness of the join, with JoinReady
\* for the join's enabledness (a join always takes its run out of runs)
FairLookups ==
  /\ WF_vars(\E i \in DOMAIN runs : \E j \in DOMAIN runs[i].lookups :
               \E resp \in Responses : LookupResponse(i, j, resp))
  /\ ([]<>(~JoinReady) \/ []<><<\E i \in DOMAIN runs : Join(i)>>_vars)

\* the dataset request of the fan-out scenario is eventually answered and its
\* body eventually read
FairFanout ==
  /\ WF_vars(\E i \in DOMAIN fetches : FetchOk(i) \/ FetchFail(i))
  /\ WF_vars(\E i \in DOMAIN fetches :
               \E body \in {BodySyntaxError, BodyArray(BigDataset)} : FetchJson(i, body))

\* the fan-out scenario (one load of the long trail dataset, no dataset
\* switch and no reload after it) with every request answered
SpecQuiesce == InitFanout /\ [][NextFanout]_vars /\ FairFanout /\ FairLookups

\* the rows of the selected dataset that have coordinates and no location name
Locatable ==
  LET rows == RowsOf(kind, trailRows, trafficRows)
  IN  {i \in DOMAIN rows :
         /\ Trim(OrElse(rows[i].location_name, <<>>)) = <<>>
         /\ Trim(OrElse(rows[i].latitude, <<>>)) # <<>>
         /\ Trim(OrElse(rows[i].longitude, <<>>)) # <<>>}

\* no load and no lookup is under way, and every locatable row has its entry
Quiescent ==
  /\ \A i \in DOMAIN fetches : fetches[i].pc = "done"
  /\ runs = <<>>
  /\ \A i \in Locatable :
       TodoKey(RowsOf(kind, trailRows, trafficRows)[i]) \in DOMAIN neighNames

\* C21: when every request is eventually answered and the kind switches have
\* stopped, the neighbourhood effect reaches a state of rest and stays in it:
\* every row of the selected dataset with coordinates and no location name has
\* an entry in neighNames, and no lookup is under way or started any more.
C21_EffectComesToRest == <>[]Quiescent

\* C21 witness: the effect is at rest after two batches were looked up and
\* published, every row of the long dataset having its entry
C21_Witness ==
  /\ Quiescent
  /\ Cardinality(Locatable) = BigRows
  /\ Cardinality(DOMAIN neighNames) = BigRows

-----------------------------------------------------------------------------
(* The expanded cards across name publications and dataset switches *)

\* two trail closures with a long text at the same coordinates, the first
\* without a location name and the second with one, neither with an
\* infrastructure or a start date
ExpandTrail ==
  LET row == [EmptyRow EXCEPT !.details = Letters(ExpandLimit + 1, "a"),
                              !.latitude = <<"1">>, !.longitude = <<"2">>]
  IN  << row, [row EXCEPT !.location_name = <<"B">>] >>

\* a traffic disruption with a long text at those coordinates, without a
\* location name or a start date
ExpandTraffic ==
  << [EmptyRow EXCEPT !.description = Letters(ExpandLimit + 1, "b"),
                      !.latitude = <<"1">>, !.longitude = <<"2">>] >>

\* what res.json() of the dataset request may give in this scenario
BodiesExpand(k) ==
  {BodySyntaxError, BodyArray(IF k = "trail" THEN ExpandTrail ELSE ExpandTraffic)}

\* the component with these datasets: loads, dataset switches, lookups that
\* find the name A or nothing, and the toggles of the cards on screen
NextExpand ==
  \/ \E k \in Kinds : SetKind(k)
  \/ \E v \in {"map", "list"} : SetView(v)
  \/ \E i \in DOMAIN fetches : FetchOk(i)
  \/ \E i \in DOMAIN fetches : FetchFail(i)
  \/ \E i \in DOMAIN fetches :
       \E body \in BodiesExpand(fetches[i].kind) : FetchJson(i, body)
  \/ \E i \in DOMAIN runs : \E j \in DOMAIN runs[i].lookups :
       \E resp \in {ResponseNotOk, ResponseOk(<<"A">>)} : LookupResponse(i, j, resp)
  \/ \E i \in DOMAIN runs : Join(i)
  \/ \E i \in DOMAIN details : ToggleExpand(i)

SpecExpand == Init /\ [][NextExpand]_vars

\* whether the card of row i of dataset k is expanded: what the list shows for
\* it whenever that dataset is on screen
ExpandedCard(k, i) ==
  IsExpanded(expanded,
             Details(k, RowsOf(k, trailRows, trafficRows)[i], i - 1, neighNames, expanded).key)

\* C22: the expanded state of a card changes only when its own toggle is
\* activated: no publication of a neighbourhood name and no dataset switch
\* changes it, and no toggle of a card of the other dataset does.
C22_ExpandedUntilOwnToggle ==
  [][\A k \in Kinds : \A i \in DOMAIN RowsOf(k, trailRows, trafficRows) :
       ( /\ i \in DOMAIN RowsOf(k, trailRows', trafficRows')
         /\ RowsOf(k, trailRows', trafficRows')[i] = RowsOf(k, trailRows, trafficRows)[i]
         /\ ExpandedCard(k, i)' # ExpandedCard(k, i) )
       => (k = kind /\ Toggled(i))]_vars

-----------------------------------------------------------------------------
(* The rows of /api/parks and what fetchData makes of them                  *)
(* (TrailDirectory.tsx lines 40-87, page.tsx lines 25-66)                   *)

\* NaN among the numbers
JsNaN == [t |-> "NaN", n |-> 0, s |-> <<>>]

\* Number(s) for a string that is blank, a signed whole number, or no number
\* at all (the strings of the model have no fraction, exponent or radix prefix)
ToNumber(s) ==
  LET t      == Trim(s)
      neg    == t # <<>> /\ t[1] = "-"
      digits == IF t # <<>> /\ t[1] \in {"-", "+"} THEN Tail(t) ELSE t
  IN  IF t = <<>> THEN JsNum(0)
      ELSE IF digits # <<>> /\ \A i \in DOMAIN digits : IsDigit(digits[i])
      THEN JsNum(IF neg THEN 0 - DigitsValue(digits, 0) ELSE DigitsValue(digits, 0))
      ELSE JsNaN

\* Number(x || 0) of an optional string field
NumberOrZero(x) == IF Truthy(x) THEN ToNumber(x) ELSE JsNum(0)

\* s.includes(t)
Includes(s, t) == \E i \in 0..(Len(s) - Len(t)) : SubSeq(s, i + 1, i + Len(t)) = t

\* one element of the array /api/parks answers with: a RawPark object with
\* every member missing, and null
RawPark ==
  [isNull |-> FALSE, id |-> Undef, official_name |-> Undef, common_name |-> Undef,
   status |-> Undef, type |-> Undef, class |-> Undef, address |-> Undef,
   area |-> Undef, longitude |-> Undef, latitude |-> Undef]

RawNull == [RawPark EXCEPT !.isNull = TRUE]

\* the callback of raw.map (lines 61-75): the Park of an item at an index;
\* distance is the optional member the filter effect fills in
ParsePark(item, index) ==
  [numberID         |-> IF Truthy(item.id) /\ ToNumber(item.id) # JsNaN
                        THEN ToNumber(item.id) ELSE JsNum(index),
   textOfficialName |-> OrElse(item.official_name, <<>>),
   textCommonName   |-> OrElse(item.common_name, <<>>),
   textStatus       |-> IF item.status = Undef THEN <<>> ELSE ToLowerCase(item.status),
   textType         |-> OrElse(item.type, <<>>),
   textClass        |-> OrElse(item.class, <<>>),
   textAddress      |-> OrElse(item.address, <<>>),
   numberArea       |-> NumberOrZero(item.area),
   numberLongitude  |-> NumberOrZero(item.longitude),
   numberLatitude   |-> NumberOrZero(item.latitude),
   distance         |-> JsUndef]

\* fetchData returned at "if (!Array.isArray(raw)) return" (line 47)
NotAnArray == [t |-> "skip", v |-> <<>>]

\* the try block after res.json() settled with body (lines 45-75): the parsed
\* parks, the early return, or the exception (a member read of a null item
\* is a TypeError)
ParseParks(body) ==
  IF body.parse = "error" THEN Thrown
  ELSE IF ~body.isArray THEN NotAnArray
  ELSE IF \E i \in DOMAIN body.rows : body.rows[i].isNull THEN Thrown
  ELSE Returned([i \in DOMAIN body.rows |-> ParsePark(body.rows[i], i - 1)])

-----------------------------------------------------------------------------
(* TrailDirectory (src/components/TrailDirectory.tsx) *)

\* "active"
ActiveText == <<"a", "c", "t", "i", "v", "e">>

\* a search that compares the names as they are written
MatchesSearchCased(p, term) ==
  Includes(p.textOfficialName, term) \/ Includes(p.textCommonName, term)

\* matchesSearch (lines 108-110), term already in lower case
MatchesSearch(p, term) ==
  \/ Includes(ToLowerCase(p.textOfficialName), term)
  \/ Includes(ToLowerCase(p.textCommonName), term)

\* the callback of parks.filter (lines 107-114)
Matches(p, term, active, cls) ==
  /\ MatchesSearch(p, term)
  /\ (IF active THEN p.textStatus = ActiveText ELSE TRUE)
  /\ (IF Truthy(cls) THEN p.textClass = cls ELSE TRUE)

\* the distance member (lines 118-122) as the square of Math.hypot(...): two
\* distances compare as their squares do, and one is 0 when the other is
DistanceOf(p, coords) ==
  IF p.numberLatitude = JsNaN \/ p.numberLongitude = JsNaN THEN JsNaN
  ELSE JsNum((p.numberLatitude.n - coords.latitude) * (p.numberLatitude.n - coords.latitude)
             + (p.numberLongitude.n - coords.longitude) * (p.numberLongitude.n - coords.longitude))

\* the comparator (line 126): below, at or above 0; a NaN result counts as 0
DistanceCompare(a, b) ==
  IF a.distance.t # "number" \/ b.distance.t # "number" THEN 0
  ELSE a.distance.n - b.distance.n

\* Array.prototype.sort by that comparator: a stable sort
RECURSIVE InsertByDistance(_, _)
InsertByDistance(out, p) ==
  IF out = <<>> THEN <<p>>
  ELSE IF DistanceCompare(Head(out), p) <= 0
       THEN <<Head(out)>> \o InsertByDistance(Tail(out), p)
  ELSE <<p>> \o out

RECURSIVE SortByDistance(_, _)
SortByDistance(list, out) ==
  IF list = <<>> THEN out
  ELSE SortByDistance(Tail(list), InsertByDistance(out, Head(list)))

\* the filter effect (lines 104-131): what it hands to setFiltered
FilterEffect(ps, search, active, cls, coords, sort) ==
  LET term     == ToLowerCase(search)
      list     == SelectSeq(ps, LAMBDA p : Matches(p, term, active, cls))
      withDist == [i \in DOMAIN list |->
                     [list[i] EXCEPT !.distance = DistanceOf(list[i], coords[1])]]
  IN  IF coords = <<>> THEN list
      ELSE IF sort THEN SortByDistance(withDist, <<>>)
      ELSE withDist

\* uniqueClasses (lines 133-135): the options of the class select besides ""
UniqueClasses(ps) == {ps[i].textClass : i \in DOMAIN ps} \ {<<>>}

\* the component's state set to that of a fresh mount, fetchData() at pc
DirReset(pc) ==
  /\ parks' = <<>>
  /\ filtered' = <<>>
  /\ searchTerm' = <<>>
  /\ statusActiveOnly' = FALSE
  /\ classFilter' = <<>>
  /\ userCoords' = <<>>
  /\ sortNearMe' = FALSE
  /\ dirFetch' = pc

\* the render after a handler, followed by the filter effect: filtered is
\* what the effect computes from the new values of its dependencies
RunFilterEffect ==
  filtered' = FilterEffect(parks', searchTerm', statusActiveOnly', classFilter',
                           userCoords', sortNearMe')

\* the search input (line 147)
SetSearchTerm(t) ==
  /\ dirFetch # "none"
  /\ t # searchTerm
  /\ searchTerm' = t
  /\ UNCHANGED <<parks, statusActiveOnly, classFilter, userCoords, sortNearMe, dirFetch>>
  /\ RunFilterEffect
  /\ UNCHANGED <<pageVars, listVars>>

\* the status toggle (line 160)
ToggleStatus ==
  /\ dirFetch # "none"
  /\ statusActiveOnly' = ~statusActiveOnly
  /\ UNCHANGED <<parks, searchTerm, classFilter, userCoords, sortNearMe, dirFetch>>
  /\ RunFilterEffect
  /\ UNCHANGED <<pageVars, listVars>>

\* the class select (lines 171-182): "" or one of uniqueClasses
SetClassFilter(c) ==
  /\ dirFetch # "none"
  /\ c \in {<<>>} \cup UniqueClasses(parks)
  /\ c # classFilter
  /\ classFilter' = c
  /\ UNCHANGED <<parks, searchTerm, statusActiveOnly, userCoords, sortNearMe, dirFetch>>
  /\ RunFilterEffect
  /\ UNCHANGED <<pageVars, listVars>>

\* the Sort: Near Me button (line 187)
ToggleSort ==
  /\ dirFetch # "none"
  /\ sortNearMe' = ~sortNearMe
  /\ UNCHANGED <<parks, searchTerm, statusActiveOnly, classFilter, userCoords, dirFetch>>
  /\ RunFilterEffect
  /\ UNCHANGED <<pageVars, listVars>>

\* the Reset button (lines 194-200)
Reset ==
  /\ dirFetch # "none"
  /\ searchTerm' = <<>>
  /\ statusActiveOnly' = FALSE
  /\ classFilter' = <<>>
  /\ sortNearMe' = FALSE
  /\ UNCHANGED <<parks, userCoords, dirFetch>>
  /\ RunFilterEffect
  /\ UNCHANGED <<pageVars, listVars>>

\* the success callback of getCurrentPosition (lines 92-97)
Geolocate(c) ==
  /\ dirFetch # "none"
  /\ userCoords = <<>>
  /\ userCoords' = <<c>>
  /\ UNCHANGED <<parks, searchTerm, statusActiveOnly, classFilter, sortNearMe, dirFetch>>
  /\ RunFilterEffect
  /\ UNCHANGED <<pageVars, listVars>>

\* fetchData() reached its end with the try block's outcome out (lines 77-83)
DirSettle(out) ==
  /\ dirFetch' = "done"
  /\ parks' = IF out.t = "return" THEN out.v
              ELSE IF out.t = "throw" THEN <<>>
              ELSE parks
  /\ UNCHANGED <<searchTerm, statusActiveOnly, classFilter, userCoords, sortNearMe>>
  /\ RunFilterEffect
  /\ UNCHANGED <<pageVars, listVars>>

\* await fetch("/api/parks") resolved with an OK response (lines 43-44)
DirFetchOk ==
  /\ dirFetch = "fetch"
  /\ dirFetch' = "json"
  /\ UNCHANGED <<parks, filtered, searchTerm, statusActiveOnly, classFilter, userCoords,
                 sortNearMe, pageVars, listVars>>

\* await fetch("/api/parks") rejected, or resolved with a non-OK response
DirFetchFail ==
  /\ dirFetch = "fetch"
  /\ DirSettle(Thrown)

\* await res.json() settled with body (line 45)
DirFetchJson(body) ==
  /\ dirFetch = "json"
  /\ DirSettle(ParseParks(body))

-----------------------------------------------------------------------------
(* Page (src/app/page.tsx) and Header (src/unnamed/part_003) *)

\* the views onNavigate of the header is called with (part_003 lines 14-24)
HeaderTargets == {"home", "trails", "map", "alerts", "closures", "about"}

\* what Page renders between <Header> and <Footer> (page.tsx lines 71-87)
PageContent(v) ==
  (IF v = "home" THEN <<"HomePage">> ELSE <<>>)
    \o (IF v = "trails" THEN <<"TrailDirectory">> ELSE <<>>)
    \o (IF v = "map" THEN <<"TrailMap">> ELSE <<>>)
    \o (IF v = "alerts" THEN <<"Alerts">> ELSE <<>>)
    \o (IF v = "about" THEN <<"About">> ELSE <<>>)

\* setView(t) and the render that follows: a TrailDirectory that comes on
\* screen is mounted afresh, one that leaves it is unmounted with its state
SetPageView(t) ==
  /\ pageView' = t
  /\ IF t = "trails" /\ pageView # "trails" THEN DirReset("fetch")
     ELSE IF t # "trails" THEN DirReset("none")
     ELSE UNCHANGED dirVars

\* a button of the header (part_003 lines 12-24, page.tsx line 70)
Navigate(t) ==
  /\ t \in HeaderTargets
  /\ SetPageView(t)
  /\ UNCHANGED <<pageParks, selectedPark, pageFetch, listVars>>

\* a card of the directory (TrailDirectory.tsx lines 215-218)
CardClick(i) ==
  /\ dirFetch # "none"
  /\ i \in DOMAIN filtered
  /\ selectedPark' = <<filtered[i]>>
  /\ SetPageView("map")
  /\ UNCHANGED <<pageParks, pageFetch, listVars>>

\* onSelect of the map view with one of the parks it was given (page.tsx lines 79-83)
MapSelect(i) ==
  /\ pageView = "map"
  /\ i \in DOMAIN pageParks
  /\ selectedPark' = <<pageParks[i]>>
  /\ UNCHANGED <<pageView, pageParks, pageFetch, dirVars, listVars>>

\* Page's fetchData() (page.tsx lines 25-66): the catch block only logs
PageFetchOk ==
  /\ pageFetch = "fetch"
  /\ pageFetch' = "json"
  /\ UNCHANGED <<pageView, pageParks, selectedPark, dirVars, listVars>>

PageFetchFail ==
  /\ pageFetch = "fetch"
  /\ pageFetch' = "done"
  /\ UNCHANGED <<pageView, pageParks, selectedPark, dirVars, listVars>>

PageFetchJson(body) ==
  /\ pageFetch = "json"
  /\ pageFetch' = "done"
  /\ pageParks' = IF ParseParks(body).t = "return" THEN ParseParks(body).v ELSE pageParks
  /\ UNCHANGED <<pageView, selectedPark, dirVars, listVars>>

-----------------------------------------------------------------------------
(* The page among its parks *)

\* three parks: names that differ in case, one status in upper case, one
\* park without status, class or coordinates
ParkRows ==
  << [RawPark EXCEPT !.id = <<"7">>, !.official_name = <<"A", "b">>,
                     !.status = <<"A", "c", "t", "i", "v", "e">>, !.class = <<"a">>,
                     !.latitude = <<"3">>, !.longitude = <<"0">>],
     [RawPark EXCEPT !.id = <<"b">>, !.official_name = <<"b">>, !.common_name = <<"b", "A">>,
                     !.status = <<"b">>, !.class = <<"b">>,
                     !.latitude = <<"1">>, !.longitude = <<"1">>],
     [RawPark EXCEPT !.official_name = <<"B">>] >>

\* what res.json() of /api/parks may give
ParkBodies ==
  {BodySyntaxError, BodyNotArray, BodyArray(<<RawNull>>), BodyArray(ParkRows)}

\* what the user may type into the search input
Terms == {<<>>, <<"a">>, <<"A">>, <<"p">>}

\* where the browser may locate the user
Positions == {[latitude |-> 0, longitude |-> 0]}

InitSite ==
  /\ Mounted
  /\ arg = <<>>
  /\ ret = <<>>

NextSite ==
  \/ \E t \in HeaderTargets : Navigate(t)
  \/ \E i \in DOMAIN filtered : CardClick(i)
  \/ \E i \in DOMAIN pageParks : MapSelect(i)
  \/ PageFetchOk
  \/ PageFetchFail
  \/ \E body \in ParkBodies : PageFetchJson(body)
  \/ DirFetchOk
  \/ DirFetchFail
  \/ \E body \in ParkBodies : DirFetchJson(body)
  \/ \E t \in Terms : SetSearchTerm(t)
  \/ ToggleStatus
  \/ \E c \in UniqueClasses(parks) \cup {<<>>} : SetClassFilter(c)
  \/ ToggleSort
  \/ Reset
  \/ \E c \in Positions : Geolocate(c)

SpecSite == InitSite /\ [][NextSite]_vars

-----------------------------------------------------------------------------
(* Claims about the page and the directory *)

\* C23: after a navigation to any of the targets the header can emit, Page
\* renders exactly one content view between its header and its footer.
C23_OneContentView ==
  [][\A t \in HeaderTargets : pageView' = t => Len(PageContent(pageView')) = 1]_vars

\* the parks of a displayed list without the distance the effect filled in
Undistanced(list) == [i \in DOMAIN list |-> [list[i] EXCEPT !.distance = JsUndef]]

\* two lists hold the same parks, each as often as the other
SameParks(a, b) ==
  /\ Len(a) = Len(b)
  /\ \A p \in Range(a) \cup Range(b) :
       Cardinality({i \in DOMAIN a : a[i] = p}) = Cardinality({i \in DOMAIN b : b[i] = p})

\* the park passes the filters as they are set: a name contains the search
\* term whatever the case of either, the status is "active" under the
\* active-only toggle, the class is the selected one when one is selected
Wanted(p) ==
  /\ \/ Includes(ToLowerCase(p.textOfficialName), ToLowerCase(searchTerm))
     \/ Includes(ToLowerCase(p.textCommonName), ToLowerCase(searchTerm))
  /\ statusActiveOnly => p.textStatus = ActiveText
  /\ classFilter # <<>> => p.textClass = classFilter

\* fetchData() ends in its catch block
FetchFailed ==
  \/ DirFetchFail
  \/ \E body \in {BodySyntaxError, BodyArray(<<RawNull>>)} : DirFetchJson(body)

\* C24: whatever was searched, toggled, selected, sorted or reset, the
\* directory displays exactly the loaded parks that pass the filters as they
\* are set; Reset makes the displayed list the list of all loaded parks; a
\* failed parks fetch leaves the loaded and the displayed list empty.
C24_DisplayedIsFilteredParks ==
  /\ [](dirFetch # "none" => SameParks(Undistanced(filtered), SelectSeq(parks, Wanted)))
  /\ [][Reset => Undistanced(filtered') = parks']_vars
  /\ [][FetchFailed => (parks' = <<>> /\ filtered' = <<>>)]_vars

\* C24 witness: of the three loaded parks the two whose name contains "a" in
\* either case are displayed for the term "A", the nearer one first
C24_Witness ==
  /\ dirFetch = "done"
  /\ Len(parks) = 3
  /\ searchTerm = <<"A">>
  /\ sortNearMe
  /\ userCoords # <<>>
  /\ Len(filtered) = 2
  /\ filtered[1].textOfficialName = parks[2].textOfficialName
  /\ filtered[2].textOfficialName = parks[1].textOfficialName

====
